---- MODULE Spec2Model ----
(***************************************************************************)
(* Matchmaking and proposal protocol of the language-exchange platform:    *)
(* Match (app/db/models/match.py), its proposal state machine, the         *)
(* persistence of a Match row under concurrent workers, the matchmaker's    *)
(* pairing over MatchCandidate rows, and the lifecycle of a Session        *)
(* (app/db/models/session.py).                                             *)
(***************************************************************************)
EXTENDS Integers, Sequences, FiniteSets, TLC

VARIABLES
  now,      \* the clock, seconds
  match,    \* the Match under study
  last,     \* the last call made on it
  ordA,     \* a copy of the proposal answered by user1, then user2
  ordB,     \* a copy of the proposal answered by user2, then user1
  plan,     \* what each participant answers on ordA and ordB
  row,      \* the Match row as stored
  wk,       \* per worker: its position and its in-memory copy of the row
  cand,     \* the MatchCandidate row of each user
  matches,  \* the matches table, in insertion order; a match's id is its index
  pass,     \* per matchmaker pass: its position and the pair it works on
  mmlast,   \* the outcome of the last matchmaker step that ended a pass
  sess,     \* the Session under study
  slast,    \* the last call made on it
  spent,    \* seconds the session has been Active and Paused, by the clock,
            \* and the number of pause_session calls made
  mc,       \* the MatchCandidate under study
  mclast,   \* the last call made on it
  mcnote,   \* what the latest enqueue and the latest strike were
  factors,  \* the factor map given to calculate_match_quality_score
  score,    \* what calculate_match_quality_score returned for it
  bucket,   \* the TokenBucket under study
  blast,    \* the last call made on it
  store,    \* the Redis key of one identifier and limit type
  rq,       \* per is_allowed call in progress: its position and its bucket
  rlnote,   \* how many is_allowed calls were made, and how many of those
            \* made in the first refill period were allowed
  mw        \* the request the middleware is dispatching

matchVars == <<match, last>>
orderVars == <<ordA, ordB, plan>>
concVars == <<row, wk>>
mmVars == <<cand, matches, pass, mmlast>>
sessVars == <<sess, slast, spent>>
candVars == <<mc, mclast, mcnote>>
scoreVars == <<factors, score>>
rlVars == <<bucket, blast, store, rq, rlnote, mw>>
vars == <<now, match, last, ordA, ordB, plan, row, wk, cand, matches, pass, mmlast,
          sess, slast, spent, mc, mclast, mcnote, factors, score,
          bucket, blast, store, rq, rlnote, mw>>

(***************************************************************************)
(* Values                                                                  *)
(***************************************************************************)
\* a nullable String column holding NULL
Null == "null"
\* a nullable DateTime column holding NULL
NoTime == 0 - 1

\* settings.MATCH_PROPOSAL_TTL, seconds
MATCH_PROPOSAL_TTL == 90
\* seconds the clock advances per step of the model
TickStep == 45
\* the clock stops here
MaxTime == 135

\* MatchState values
PROPOSED == "proposed"
ACCEPTED == "accepted"
REJECTED == "rejected"
EXPIRED == "expired"
SESSION_CREATED == "session_created"
MatchState == {PROPOSED, ACCEPTED, REJECTED, EXPIRED, SESSION_CREATED}
TerminalMatchStates == {REJECTED, EXPIRED, SESSION_CREATED}

\* the two participants of the match under study and a third user
User1 == "u1"
User2 == "u2"
Stranger == "u3"
Participants == {User1, User2}
Callers == {User1, User2, Stranger}
\* what a participant answers (user1_response: "accepted", "rejected", null)
Responses == {"accepted", "rejected"}
SessionIds == {"s1", "s2"}
\* the proposal under study is created at time 0
ProposedAt == 0

(***************************************************************************)
(* Match                                                                   *)
(***************************************************************************)
\* a freshly inserted Match row: column defaults, expires_at = proposed_at + TTL
NewMatch(u1, u2, t) ==
  [ user1_id |-> u1, user2_id |-> u2,
    state |-> PROPOSED,
    proposed_at |-> t,
    expires_at |-> t + MATCH_PROPOSAL_TTL,
    user1_response |-> Null, user2_response |-> Null,
    user1_responded_at |-> NoTime, user2_responded_at |-> NoTime,
    session_id |-> Null,
    rejection_reason |-> Null,
    accepted_at |-> NoTime, completed_at |-> NoTime ]

is_expired(m, t) == t > m.expires_at

is_pending(m, t) == m.state = PROPOSED /\ ~is_expired(m, t)

\* is_fully_responded with "or" written for "and"
Mut_is_fully_responded(m) == m.user1_response # Null \/ m.user2_response # Null

is_fully_responded(m) == m.user1_response # Null /\ m.user2_response # Null

is_accepted_by_both(m) ==
  m.user1_response = "accepted" /\ m.user2_response = "accepted"

\* Match._update_state_after_response
UpdateStateAfterResponse(m, t) ==
  IF ~is_fully_responded(m) THEN m
  ELSE IF is_accepted_by_both(m)
       THEN [m EXCEPT !.state = ACCEPTED, !.accepted_at = t]
       ELSE [m EXCEPT !.state = REJECTED, !.completed_at = t,
                      !.rejection_reason =
                         IF m.user1_response = "rejected" /\ m.user2_response = "rejected"
                         THEN "both_rejected"
                         ELSE IF m.user1_response = "rejected"
                              THEN "user1_rejected"
                              ELSE "user2_rejected"]

\* set_user_response without its final "else: raise ValueError"
Mut_SetUserResponseRaises(m, user_id) == FALSE

\* Match.set_user_response raises ValueError for a user who is not in the match
SetUserResponseRaises(m, user_id) ==
  user_id # m.user1_id /\ user_id # m.user2_id

\* set_user_response with the state update reached only from user1's branch
Mut_SetUserResponse(m, user_id, response, t) ==
  IF user_id = m.user1_id
  THEN UpdateStateAfterResponse(
         [m EXCEPT !.user1_response = response, !.user1_responded_at = t], t)
  ELSE [m EXCEPT !.user2_response = response, !.user2_responded_at = t]

\* Match.set_user_response, when it does not raise
SetUserResponse(m, user_id, response, t) ==
  IF user_id = m.user1_id
  THEN UpdateStateAfterResponse(
         [m EXCEPT !.user1_response = response, !.user1_responded_at = t], t)
  ELSE UpdateStateAfterResponse(
         [m EXCEPT !.user2_response = response, !.user2_responded_at = t], t)

\* expire_match writing "timeout" over every response
Mut_ExpireMatch(m, t) ==
  [m EXCEPT !.state = EXPIRED, !.completed_at = t,
            !.user1_response = "timeout",
            !.user2_response = "timeout"]

\* Match.expire_match
ExpireMatch(m, t) ==
  [m EXCEPT !.state = EXPIRED, !.completed_at = t,
            !.user1_response = IF m.user1_response = Null THEN "timeout" ELSE @,
            !.user2_response = IF m.user2_response = Null THEN "timeout" ELSE @]

\* create_session without its assignment of session_id
Mut_CreateSession(m, session_id) ==
  [m EXCEPT !.state = SESSION_CREATED]

\* Match.create_session
CreateSession(m, session_id) ==
  [m EXCEPT !.session_id = session_id, !.state = SESSION_CREATED]

(***************************************************************************)
(* One match, calls made one after another                                 *)
(***************************************************************************)
\* the record of the last call: its name, arguments, outcome, the time of
\* the call and the match as it was before the call
NoCall ==
  [op |-> "none", user_id |-> Null, arg |-> Null, result |-> "ok",
   at |-> ProposedAt, pre |-> NewMatch(User1, User2, ProposedAt)]

InitMatch ==
  /\ match = NewMatch(User1, User2, ProposedAt)
  /\ last = NoCall

Tick ==
  /\ now + TickStep <= MaxTime
  /\ now' = now + TickStep
  /\ UNCHANGED <<matchVars, orderVars, concVars, mmVars, sessVars, candVars, scoreVars, rlVars>>

CallSetUserResponse ==
  \E u \in Callers, r \in Responses :
    /\ IF SetUserResponseRaises(match, u)
       THEN /\ match' = match
            /\ last' = [op |-> "set_user_response", user_id |-> u, arg |-> r,
                        result |-> "ValueError", at |-> now, pre |-> match]
       ELSE /\ match' = SetUserResponse(match, u, r, now)
            /\ last' = [op |-> "set_user_response", user_id |-> u, arg |-> r,
                        result |-> "ok", at |-> now, pre |-> match]
    /\ UNCHANGED <<now, orderVars, concVars, mmVars, sessVars, candVars, scoreVars, rlVars>>

CallExpireMatch ==
  /\ match' = ExpireMatch(match, now)
  /\ last' = [op |-> "expire_match", user_id |-> Null, arg |-> Null,
              result |-> "ok", at |-> now, pre |-> match]
  /\ UNCHANGED <<now, orderVars, concVars, mmVars, sessVars, candVars, scoreVars, rlVars>>

CallCreateSession ==
  \E s \in SessionIds :
    /\ match' = CreateSession(match, s)
    /\ last' = [op |-> "create_session", user_id |-> Null, arg |-> s,
                result |-> "ok", at |-> now, pre |-> match]
    /\ UNCHANGED <<now, orderVars, concVars, mmVars, sessVars, candVars, scoreVars, rlVars>>

(***************************************************************************)
(* Two copies of one proposal, answered in the two orders                  *)
(***************************************************************************)
InitOrder ==
  /\ ordA = NewMatch(User1, User2, ProposedAt)
  /\ ordB = NewMatch(User1, User2, ProposedAt)

\* user1 answers ordA first, user2 second
RespondA ==
  \E u \in Participants :
    /\ ordA.user2_response = Null
    /\ (u = User1) = (ordA.user1_response = Null)
    /\ ordA' = SetUserResponse(ordA, u, plan[u], now)
    /\ UNCHANGED <<now, ordB, plan, matchVars, concVars, mmVars, sessVars, candVars, scoreVars, rlVars>>

\* user2 answers ordB first, user1 second
RespondB ==
  \E u \in Participants :
    /\ ordB.user1_response = Null
    /\ (u = User2) = (ordB.user2_response = Null)
    /\ ordB' = SetUserResponse(ordB, u, plan[u], now)
    /\ UNCHANGED <<now, ordA, plan, matchVars, concVars, mmVars, sessVars, candVars, scoreVars, rlVars>>

(***************************************************************************)
(* One stored Match row, two workers each recording one participant's      *)
(* response in its own database session                                    *)
(***************************************************************************)
Workers == Participants

InitConc ==
  /\ row = NewMatch(User1, User2, ProposedAt)
  /\ wk = [w \in Workers |->
             [pc |-> "start",
              snap |-> NewMatch(User1, User2, ProposedAt),
              obj |-> NewMatch(User1, User2, ProposedAt)]]

\* the worker's session loads the row into an object of its own
Load(w) ==
  /\ wk[w].pc = "start"
  /\ wk' = [wk EXCEPT ![w] = [pc |-> "loaded", snap |-> row, obj |-> row]]
  /\ UNCHANGED <<now, row, matchVars, orderVars, mmVars, sessVars, candVars, scoreVars, rlVars>>

\* the worker calls set_user_response on its object
Respond(w) ==
  \E r \in Responses :
    /\ wk[w].pc = "loaded"
    /\ wk' = [wk EXCEPT ![w].pc = "responded",
                        ![w].obj = SetUserResponse(wk[w].obj, w, r, now)]
    /\ UNCHANGED <<now, row, matchVars, orderVars, mmVars, sessVars, candVars, scoreVars, rlVars>>

\* the UPDATE a commit flushes: the columns the worker changed since it
\* loaded the row
Flush(stored, snap, obj) ==
  [f \in DOMAIN stored |-> IF obj[f] # snap[f] THEN obj[f] ELSE stored[f]]

\* the worker's transaction commits
Commit(w) ==
  /\ wk[w].pc = "responded"
  /\ row' = Flush(row, wk[w].snap, wk[w].obj)
  /\ wk' = [wk EXCEPT ![w].pc = "done"]
  /\ UNCHANGED <<now, matchVars, orderVars, mmVars, sessVars, candVars, scoreVars, rlVars>>

(***************************************************************************)
(* MatchCandidate                                                          *)
(***************************************************************************)
\* MatchCandidateStatus values
IDLE == "idle"
QUEUED == "queued"
CAND_PROPOSED == "proposed"
MATCHED == "matched"
COOLDOWN == "cooldown"

\* current_match_id of a candidate with no match
NoMatch == 0

\* a freshly inserted MatchCandidate row: column defaults
NewCandidate ==
  [ status |-> IDLE,
    queued_at |-> NoTime,
    queue_priority |-> 0,
    strike_count |-> 0,
    blocked_user_ids |-> << >>,
    cooldown_until |-> NoTime,
    cooldown_reason |-> Null,
    rejection_count_today |-> 0,
    last_rejection_reset |-> NoTime,
    current_match_id |-> NoMatch ]

\* MatchCandidate.is_available
is_available(c, t) ==
  /\ c.status = IDLE
  /\ (c.cooldown_until = NoTime \/ c.cooldown_until <= t)
  /\ c.strike_count < 3

\* is_in_cooldown with "<=" written for "<"
Mut_is_in_cooldown(c, t) ==
  IF c.cooldown_until = NoTime THEN FALSE ELSE t <= c.cooldown_until

\* MatchCandidate.is_in_cooldown
is_in_cooldown(c, t) ==
  IF c.cooldown_until = NoTime THEN FALSE ELSE t < c.cooldown_until

\* MatchCandidate.add_to_queue
AddToQueue(c, priority, t) ==
  [c EXCEPT !.status = QUEUED, !.queued_at = t, !.queue_priority = priority]

\* remove_from_queue without its assignment of the status
Mut_RemoveFromQueue(c) ==
  [c EXCEPT !.queued_at = NoTime, !.queue_priority = 0]

\* MatchCandidate.remove_from_queue
RemoveFromQueue(c) ==
  [c EXCEPT !.status = IDLE, !.queued_at = NoTime, !.queue_priority = 0]

\* MatchCandidate.is_blocked_user; blocked_user_ids is a list
is_blocked_user(c, user_id) ==
  \E i \in DOMAIN c.blocked_user_ids : c.blocked_user_ids[i] = user_id

\* block_user without its "if user_id not in self.blocked_user_ids"
Mut_BlockUser(c, user_id) ==
  [c EXCEPT !.blocked_user_ids = Append(@, user_id)]

\* MatchCandidate.block_user
BlockUser(c, user_id) ==
  IF is_blocked_user(c, user_id) THEN c
  ELSE [c EXCEPT !.blocked_user_ids = Append(@, user_id)]

\* list.remove(x): the list without the first element equal to x
ListRemove(l, x) ==
  LET i == CHOOSE k \in DOMAIN l : l[k] = x /\ \A j \in 1..(k - 1) : l[j] # x
  IN  SubSeq(l, 1, i - 1) \o SubSeq(l, i + 1, Len(l))

\* MatchCandidate.unblock_user
UnblockUser(c, user_id) ==
  IF is_blocked_user(c, user_id)
  THEN [c EXCEPT !.blocked_user_ids = ListRemove(@, user_id)]
  ELSE c

\* MatchCandidate.add_cooldown
AddCooldown(c, duration_minutes, reason, t) ==
  [c EXCEPT !.status = COOLDOWN,
            !.cooldown_until = t + duration_minutes * 60,
            !.cooldown_reason = reason]

\* add_strike with the cooldown applied only beyond the third strike
Mut_AddStrike(c, t) ==
  LET a == [c EXCEPT !.strike_count = @ + 1]
  IN  IF a.strike_count > 3
      THEN AddCooldown(a, 60 * 24, "excessive_strikes", t)
      ELSE a

\* MatchCandidate.add_strike
AddStrike(c, t) ==
  LET a == [c EXCEPT !.strike_count = @ + 1]
  IN  IF a.strike_count >= 3
      THEN AddCooldown(a, 60 * 24, "excessive_strikes", t)
      ELSE a

\* datetime.date(): the UTC day a time falls on, time 0 being a midnight
DateOf(t) == t \div (24 * 60 * 60)

\* reset_daily_rejections comparing the dates with "<="
Mut_ResetDailyRejections(c, t) ==
  IF c.last_rejection_reset = NoTime \/ DateOf(c.last_rejection_reset) <= DateOf(t)
  THEN [c EXCEPT !.rejection_count_today = 0, !.last_rejection_reset = t]
  ELSE c

\* MatchCandidate.reset_daily_rejections
ResetDailyRejections(c, t) ==
  IF c.last_rejection_reset = NoTime \/ DateOf(c.last_rejection_reset) < DateOf(t)
  THEN [c EXCEPT !.rejection_count_today = 0, !.last_rejection_reset = t]
  ELSE c

\* MatchCandidate.can_reject_more_today: the candidate after the call and
\* what the call returns
CanRejectMoreToday(c, max_rejections, t) ==
  LET a == ResetDailyRejections(c, t)
  IN  [c |-> a, ret |-> a.rejection_count_today < max_rejections]

(***************************************************************************)
(* The matches table and the matchmaker's passes                           *)
(***************************************************************************)
Users == {"u1", "u2", "u3"}
Passes == {"p1", "p2"}
\* rows the matches table may hold
MaxMatches == 2

MatchIds == 1..Len(matches)

IsParticipant(m, u) == u = m.user1_id \/ u = m.user2_id

\* the non-terminal matches of a user
ActiveMatchesOf(u) ==
  {i \in MatchIds : IsParticipant(matches[i], u)
                    /\ matches[i].state \notin TerminalMatchStates}

\* the non-terminal matches of an unordered pair of users
ActiveMatchesOfPair(a, b) ==
  {i \in MatchIds : /\ IsParticipant(matches[i], a)
                    /\ IsParticipant(matches[i], b)
                    /\ matches[i].state \notin TerminalMatchStates}

\* UniqueConstraint('user1_id', 'user2_id', name='uq_match_users'): an insert
\* of (a, b) is refused when a row with user1_id = a and user2_id = b exists
ViolatesUqMatchUsers(ms, a, b) ==
  \E i \in 1..Len(ms) : ms[i].user1_id = a /\ ms[i].user2_id = b

\* a candidate the matchmaker may pick: in the queue or available, not in
\* cooldown, below the strike limit, and in no active match
Eligible(u) ==
  /\ \/ is_available(cand[u], now)
     \/ /\ cand[u].status = QUEUED
        /\ ~is_in_cooldown(cand[u], now)
        /\ cand[u].strike_count < 3
  /\ ActiveMatchesOf(u) = {}

UnblockedBothWays(a, b) ==
  /\ ~is_blocked_user(cand[a], b)
  /\ ~is_blocked_user(cand[b], a)

\* the claim of a candidate without the test of its prior status
Mut_ClaimSucceeds(u, expected) == TRUE

\* the claim of a candidate succeeds when its status still is the one the
\* pass read when it selected the candidate
ClaimSucceeds(u, expected) == cand[u].status = expected

NoPass == [pc |-> "idle", a |-> Null, b |-> Null, sa |-> Null, sb |-> Null]
NoStep == [op |-> "none", result |-> "ok", a |-> Null, b |-> Null,
           had_active |-> FALSE]

InitMM ==
  /\ cand = [u \in Users |-> NewCandidate]
  /\ matches = << >>
  /\ pass = [p \in Passes |-> NoPass]
  /\ mmlast = NoStep

\* a pass picks a pair of eligible candidates and notes the status of each
Select(p) ==
  \E a \in Users, b \in Users :
    /\ pass[p].pc = "idle"
    /\ Len(matches) < MaxMatches
    /\ a # b
    /\ Eligible(a) /\ Eligible(b)
    /\ UnblockedBothWays(a, b)
    /\ pass' = [pass EXCEPT ![p] = [pc |-> "claim_a", a |-> a, b |-> b,
                                    sa |-> cand[a].status, sb |-> cand[b].status]]
    /\ UNCHANGED <<now, cand, matches, mmlast, matchVars, orderVars, concVars, sessVars, candVars, scoreVars, rlVars>>

\* the pass claims its first candidate, or loses the claim and ends
ClaimFirst(p) ==
  /\ pass[p].pc = "claim_a"
  /\ IF ClaimSucceeds(pass[p].a, pass[p].sa)
     THEN /\ cand' = [cand EXCEPT ![pass[p].a].status = CAND_PROPOSED]
          /\ pass' = [pass EXCEPT ![p].pc = "claim_b"]
          /\ UNCHANGED mmlast
     ELSE /\ pass' = [pass EXCEPT ![p] = NoPass]
          /\ mmlast' = [op |-> "claim", result |-> "ConcurrencyConflict",
                        a |-> pass[p].a, b |-> pass[p].b, had_active |-> FALSE]
          /\ UNCHANGED cand
  /\ UNCHANGED <<now, matches, matchVars, orderVars, concVars, sessVars, candVars, scoreVars, rlVars>>

\* the pass claims its second candidate, or loses the claim, gives the first
\* candidate back and ends
ClaimSecond(p) ==
  /\ pass[p].pc = "claim_b"
  /\ IF ClaimSucceeds(pass[p].b, pass[p].sb)
     THEN /\ cand' = [cand EXCEPT ![pass[p].b].status = CAND_PROPOSED]
          /\ pass' = [pass EXCEPT ![p].pc = "commit"]
          /\ UNCHANGED mmlast
     ELSE /\ cand' = [cand EXCEPT ![pass[p].a].status = pass[p].sa]
          /\ pass' = [pass EXCEPT ![p] = NoPass]
          /\ mmlast' = [op |-> "claim", result |-> "ConcurrencyConflict",
                        a |-> pass[p].a, b |-> pass[p].b, had_active |-> FALSE]
  /\ UNCHANGED <<now, matches, matchVars, orderVars, concVars, sessVars, candVars, scoreVars, rlVars>>

\* the pass inserts the Match; the table's unique constraint may refuse it
InsertMatch(p) ==
  /\ pass[p].pc = "commit"
  /\ IF ViolatesUqMatchUsers(matches, pass[p].a, pass[p].b)
     THEN /\ cand' = [cand EXCEPT ![pass[p].a].status = pass[p].sa,
                                  ![pass[p].b].status = pass[p].sb]
          /\ mmlast' = [op |-> "insert", result |-> "IntegrityError",
                        a |-> pass[p].a, b |-> pass[p].b,
                        had_active |-> ActiveMatchesOfPair(pass[p].a, pass[p].b) # {}]
          /\ UNCHANGED matches
     ELSE /\ matches' = Append(matches, NewMatch(pass[p].a, pass[p].b, now))
          /\ cand' = [cand EXCEPT ![pass[p].a].current_match_id = Len(matches) + 1,
                                  ![pass[p].b].current_match_id = Len(matches) + 1]
          /\ mmlast' = [op |-> "insert", result |-> "ok",
                        a |-> pass[p].a, b |-> pass[p].b,
                        had_active |-> ActiveMatchesOfPair(pass[p].a, pass[p].b) # {}]
  /\ pass' = [pass EXCEPT ![p] = NoPass]
  /\ UNCHANGED <<now, matchVars, orderVars, concVars, sessVars, candVars, scoreVars, rlVars>>

\* a participant accepts a pending proposal (what one match makes of
\* rejections and expiry is studied under Spec)
RespondTo(i) ==
  \E u \in Users :
    /\ i \in MatchIds
    /\ matches[i].state = PROPOSED
    /\ IsParticipant(matches[i], u)
    /\ matches' = [matches EXCEPT ![i] =
                     SetUserResponse(matches[i], u, "accepted", now)]
    /\ UNCHANGED <<now, cand, pass, mmlast, matchVars, orderVars, concVars, sessVars, candVars, scoreVars, rlVars>>

\* the session of an accepted match is created
SessionFor(i) ==
  /\ i \in MatchIds
  /\ matches[i].state = ACCEPTED
  /\ matches' = [matches EXCEPT ![i] = CreateSession(matches[i], "s1")]
  /\ UNCHANGED <<now, cand, pass, mmlast, matchVars, orderVars, concVars, sessVars, candVars, scoreVars, rlVars>>

\* a candidate whose match is over goes back to Idle
Release(u) ==
  /\ cand[u].current_match_id # NoMatch
  /\ matches[cand[u].current_match_id].state \in TerminalMatchStates
  /\ cand' = [cand EXCEPT ![u] =
                [RemoveFromQueue(cand[u]) EXCEPT !.current_match_id = NoMatch]]
  /\ UNCHANGED <<now, matches, pass, mmlast, matchVars, orderVars, concVars, sessVars, candVars, scoreVars, rlVars>>

(***************************************************************************)
(* One candidate, calls made one after another                             *)
(***************************************************************************)
\* seconds the clock advances per step while a candidate is studied (12 h)
CandTickStep == 43200
\* the clock of that study stops here (2 days)
CandMaxTime == 172800
\* add_strike is called at most this many times
MaxStrikes == 4
\* rejection_count_today of the candidate under study is at most this
MaxRejectionsSeen == 2

\* the priorities given to add_to_queue
Priorities == {0, 1}
\* the durations given to add_cooldown, in minutes (12 h)
CooldownMinutes == {720}
\* the max_rejections given to can_reject_more_today
MaxRejectionsArgs == {1, 2}

\* the record of the last call on the candidate: its name, its argument,
\* what it returned (flag, for a call that returns a boolean), the time of
\* the call and the candidate as it was before the call
NoCandCall(c) ==
  [op |-> "none", arg |-> 0, flag |-> FALSE, at |-> ProposedAt, pre |-> c]

\* no add_to_queue and no strike at or beyond the threshold has happened
NoNote == [enq_priority |-> 0, struck_at |-> NoTime]

InitCand ==
  /\ mc = NewCandidate
  /\ mclast = NoCandCall(mc)
  /\ mcnote = NoNote

CandTick ==
  /\ now + CandTickStep <= CandMaxTime
  /\ now' = now + CandTickStep
  /\ UNCHANGED <<matchVars, orderVars, concVars, mmVars, sessVars, candVars,
                 scoreVars, rlVars>>

CallAddToQueue ==
  \E priority \in Priorities :
    /\ mc' = AddToQueue(mc, priority, now)
    /\ mclast' = [op |-> "add_to_queue", arg |-> priority, flag |-> FALSE,
                  at |-> now, pre |-> mc]
    /\ mcnote' = [mcnote EXCEPT !.enq_priority = priority]
    /\ UNCHANGED <<now, matchVars, orderVars, concVars, mmVars, sessVars,
                   scoreVars, rlVars>>

CallRemoveFromQueue ==
  /\ mc' = RemoveFromQueue(mc)
  /\ mclast' = [op |-> "remove_from_queue", arg |-> 0, flag |-> FALSE,
                at |-> now, pre |-> mc]
  /\ UNCHANGED <<now, mcnote, matchVars, orderVars, concVars, mmVars, sessVars,
                 scoreVars, rlVars>>

CallAddCooldown ==
  \E d \in CooldownMinutes :
    /\ mc' = AddCooldown(mc, d, "rejection", now)
    /\ mclast' = [op |-> "add_cooldown", arg |-> d, flag |-> FALSE,
                  at |-> now, pre |-> mc]
    /\ UNCHANGED <<now, mcnote, matchVars, orderVars, concVars, mmVars,
                   sessVars, scoreVars, rlVars>>

CallAddStrike ==
  /\ mc.strike_count < MaxStrikes
  /\ mc' = AddStrike(mc, now)
  /\ mclast' = [op |-> "add_strike", arg |-> 0, flag |-> FALSE,
                at |-> now, pre |-> mc]
  /\ mcnote' = IF mc.strike_count + 1 >= 3
               THEN [mcnote EXCEPT !.struck_at = now]
               ELSE mcnote
  /\ UNCHANGED <<now, matchVars, orderVars, concVars, mmVars, sessVars,
                 scoreVars, rlVars>>

CallIsAvailable ==
  /\ mclast' = [op |-> "is_available", arg |-> 0,
                flag |-> is_available(mc, now), at |-> now, pre |-> mc]
  /\ UNCHANGED <<now, mc, mcnote, matchVars, orderVars, concVars, mmVars,
                 sessVars, scoreVars, rlVars>>

\* the user ids given to block_user, unblock_user and is_blocked_user
BlockTargets == {User1, User2, Stranger}

CallBlockUser ==
  \E u \in BlockTargets :
    /\ mc' = BlockUser(mc, u)
    /\ mclast' = [op |-> "block_user", arg |-> u, flag |-> FALSE,
                  at |-> now, pre |-> mc]
    /\ UNCHANGED <<now, mcnote, matchVars, orderVars, concVars, mmVars,
                   sessVars, scoreVars, rlVars>>

CallUnblockUser ==
  \E u \in BlockTargets :
    /\ mc' = UnblockUser(mc, u)
    /\ mclast' = [op |-> "unblock_user", arg |-> u, flag |-> FALSE,
                  at |-> now, pre |-> mc]
    /\ UNCHANGED <<now, mcnote, matchVars, orderVars, concVars, mmVars,
                   sessVars, scoreVars, rlVars>>

CallIsBlockedUser ==
  \E u \in BlockTargets :
    /\ mclast' = [op |-> "is_blocked_user", arg |-> u,
                  flag |-> is_blocked_user(mc, u), at |-> now, pre |-> mc]
    /\ UNCHANGED <<now, mc, mcnote, matchVars, orderVars, concVars, mmVars,
                   sessVars, scoreVars, rlVars>>

CallCanRejectMoreToday ==
  \E max_rejections \in MaxRejectionsArgs :
    /\ mc' = CanRejectMoreToday(mc, max_rejections, now).c
    /\ mclast' = [op |-> "can_reject_more_today", arg |-> max_rejections,
                  flag |-> CanRejectMoreToday(mc, max_rejections, now).ret,
                  at |-> now, pre |-> mc]
    /\ UNCHANGED <<now, mcnote, matchVars, orderVars, concVars, mmVars,
                   sessVars, scoreVars, rlVars>>

(***************************************************************************)
(* Session                                                                 *)
(***************************************************************************)
\* SessionState values
ACTIVE == "active"
PAUSED == "paused"
ENDED == "ended"
DROPPED == "dropped"
SESSION_EXPIRED == "expired"
SessionState == {ACTIVE, PAUSED, ENDED, DROPPED, SESSION_EXPIRED}

\* TurnLanguage values
USER1_NATIVE == "user1_native"
USER2_NATIVE == "user2_native"
MIXED == "mixed"
TurnLanguage == {USER1_NATIVE, USER2_NATIVE, MIXED}

\* SessionEndReason values
COMPLETED == "completed"
USER_LEFT == "user_left"
INACTIVITY == "inactivity"
TECHNICAL_ERROR == "technical_error"
MODERATION == "moderation"
MAXIMUM_DURATION == "maximum_duration"
SessionEndReason ==
  {COMPLETED, USER_LEFT, INACTIVITY, TECHNICAL_ERROR, MODERATION, MAXIMUM_DURATION}

\* the session under study starts at time 0
StartedAt == 0
\* switch_interval = timedelta(minutes=10), in seconds
SwitchInterval == 10 * 60

\* seconds the clock advances per step while the lifecycle is studied
SessionTickStep == 60
\* the clock of the lifecycle stops here
SessionMaxTime == 180
\* seconds the clock advances per step while the turns are studied
TurnTickStep == 300
\* the clock of the turns stops here
TurnMaxTime == 900
\* idle_threshold = timedelta(minutes=15), in seconds
IdleThreshold == 15 * 60

\* seconds the clock advances per step while overdue and idle are studied
WatchTickStep == 500
\* the clock of that study stops here
WatchMaxTime == 2000
\* add_moderation_flag is called at most this many times
MaxFlags == 3
\* the flag types given to add_moderation_flag
FlagTypes == {"toxicity", "inappropriate_content", "spam"}
\* the details given to add_moderation_flag
FlagDetails == {"d1"}
\* pause_session is called at most this many times
MaxPauses == 2
\* switch_turn_language is called at most this many times
MaxSwitches == 3

\* increment_message_count is called at most this many times
MaxMessages == 6
\* the user ids given to increment_message_count
MessageSenders == {User1, User2, Stranger}

\* the participant who reports typing
TypingUsers == {User2}
\* the participant named as having ended the session
EndedBy == {User1}

\* the column defaults of current_turn_language and auto_turn_switch_enabled
DefaultTurnLanguage == USER1_NATIVE
DefaultAutoTurnSwitch == TRUE

\* a freshly inserted Session row: column defaults, with the turn language
\* and the auto-switch flag given to the constructor
NewSession(u1, u2, t, lang, auto) ==
  [ user1_id |-> u1, user2_id |-> u2,
    planned_duration_minutes |-> 25,
    state |-> ACTIVE,
    current_turn_language |-> lang,
    turn_switched_at |-> NoTime,
    turn_switch_count |-> 0,
    auto_turn_switch_enabled |-> auto,
    started_at |-> t,
    ended_at |-> NoTime,
    last_activity_at |-> t,
    paused_at |-> NoTime,
    active_duration_seconds |-> 0,
    paused_duration_seconds |-> 0,
    user1_last_seen |-> NoTime, user2_last_seen |-> NoTime,
    user1_typing |-> FALSE, user2_typing |-> FALSE,
    total_messages |-> 0,
    user1_message_count |-> 0, user2_message_count |-> 0,
    toxicity_warnings |-> 0,
    moderation_flags |-> << >>,
    end_reason |-> Null,
    ended_by_user_id |-> Null ]

is_active(s) == s.state = ACTIVE

\* is_ended that knows only of Ended
Mut_is_ended(s) == s.state = ENDED

is_ended(s) == s.state \in {ENDED, DROPPED, SESSION_EXPIRED}

\* is_overdue with ">=" written for ">"
Mut_is_overdue(s, t) ==
  IF is_ended(s) THEN FALSE
  ELSE t - s.started_at >= s.planned_duration_minutes * 60

\* Session.is_overdue
is_overdue(s, t) ==
  IF is_ended(s) THEN FALSE
  ELSE t - s.started_at > s.planned_duration_minutes * 60

\* Session.is_idle
is_idle(s, t) ==
  IF s.last_activity_at = NoTime \/ is_ended(s) THEN FALSE
  ELSE t - s.last_activity_at > IdleThreshold

\* Session.update_activity; user_id may be None
UpdateActivity(s, user_id, t) ==
  LET a == [s EXCEPT !.last_activity_at = t]
  IN  IF user_id = Null THEN a
      ELSE IF user_id = s.user1_id THEN [a EXCEPT !.user1_last_seen = t]
      ELSE IF user_id = s.user2_id THEN [a EXCEPT !.user2_last_seen = t]
      ELSE a

\* Session.increment_message_count
IncrementMessageCount(s, user_id) ==
  LET a == [s EXCEPT !.total_messages = @ + 1]
  IN  IF user_id = s.user1_id THEN [a EXCEPT !.user1_message_count = @ + 1]
      ELSE IF user_id = s.user2_id THEN [a EXCEPT !.user2_message_count = @ + 1]
      ELSE a

\* Session.set_typing_status
SetTypingStatus(s, user_id, is_typing, t) ==
  LET a == IF user_id = s.user1_id THEN [s EXCEPT !.user1_typing = is_typing]
           ELSE IF user_id = s.user2_id THEN [s EXCEPT !.user2_typing = is_typing]
           ELSE s
  IN  IF is_typing THEN UpdateActivity(a, user_id, t) ELSE a

\* switch_turn_language with Mixed falling into the User1Native branch
Mut_SwitchTurnLanguage(s, t) ==
  [s EXCEPT !.current_turn_language =
              IF s.current_turn_language = USER2_NATIVE THEN USER1_NATIVE
              ELSE USER2_NATIVE,
            !.turn_switched_at = t,
            !.turn_switch_count = @ + 1]

\* Session.switch_turn_language
SwitchTurnLanguage(s, t) ==
  [s EXCEPT !.current_turn_language =
              IF s.current_turn_language = USER1_NATIVE THEN USER2_NATIVE
              ELSE IF s.current_turn_language = USER2_NATIVE THEN USER1_NATIVE
              ELSE USER1_NATIVE,
            !.turn_switched_at = t,
            !.turn_switch_count = @ + 1]

\* should_suggest_turn_switch with ">=" written for ">"
Mut_ShouldSuggestTurnSwitch(s, t) ==
  IF ~s.auto_turn_switch_enabled \/ s.turn_switched_at = NoTime THEN FALSE
  ELSE t - s.turn_switched_at >= SwitchInterval

\* Session.should_suggest_turn_switch
ShouldSuggestTurnSwitch(s, t) ==
  IF ~s.auto_turn_switch_enabled \/ s.turn_switched_at = NoTime THEN FALSE
  ELSE t - s.turn_switched_at > SwitchInterval

\* pause_session without its test of the state
Mut_PauseSession(s, t) ==
  [s EXCEPT !.active_duration_seconds =
              IF s.paused_at = NoTime THEN @ + (t - s.started_at) ELSE @,
            !.state = PAUSED,
            !.paused_at = t]

\* Session.pause_session
PauseSession(s, t) ==
  IF s.state = ACTIVE
  THEN [s EXCEPT !.active_duration_seconds =
                   IF s.paused_at = NoTime THEN @ + (t - s.started_at) ELSE @,
                 !.state = PAUSED,
                 !.paused_at = t]
  ELSE s

\* resume_session leaving paused_at as it was
Mut_ResumeSession(s, t) ==
  IF s.state = PAUSED /\ s.paused_at # NoTime
  THEN UpdateActivity(
         [s EXCEPT !.paused_duration_seconds = @ + (t - s.paused_at),
                   !.state = ACTIVE],
         Null, t)
  ELSE s

\* Session.resume_session
ResumeSession(s, t) ==
  IF s.state = PAUSED /\ s.paused_at # NoTime
  THEN UpdateActivity(
         [s EXCEPT !.paused_duration_seconds = @ + (t - s.paused_at),
                   !.state = ACTIVE,
                   !.paused_at = NoTime],
         Null, t)
  ELSE s

\* the final accrual of end_session with the Paused branch left out
Mut_EndAccrual(s, t) ==
  IF s.state = ACTIVE
  THEN [s EXCEPT !.active_duration_seconds =
                   @ + (t - (IF s.paused_at # NoTime THEN s.paused_at
                             ELSE s.started_at))]
  ELSE s

\* end_session, "Calculate final active duration"
EndAccrual(s, t) ==
  IF s.state = ACTIVE
  THEN [s EXCEPT !.active_duration_seconds =
                   @ + (t - (IF s.paused_at # NoTime THEN s.paused_at
                             ELSE s.started_at))]
  ELSE IF s.state = PAUSED /\ s.paused_at # NoTime
       THEN [s EXCEPT !.paused_duration_seconds = @ + (t - s.paused_at)]
       ELSE s

\* the end state with MAXIMUM_DURATION falling into the else branch
Mut_EndState(reason) ==
  IF reason = COMPLETED THEN ENDED ELSE DROPPED

\* end_session, "Set end state"
EndState(reason) ==
  IF reason = COMPLETED THEN ENDED
  ELSE IF reason = MAXIMUM_DURATION THEN SESSION_EXPIRED
  ELSE DROPPED

\* Session.end_session
EndSession(s, reason, ended_by_user_id, t) ==
  IF is_ended(s) THEN s
  ELSE [EndAccrual(s, t) EXCEPT !.state = EndState(reason),
                                !.ended_at = t,
                                !.end_reason = reason,
                                !.ended_by_user_id = ended_by_user_id,
                                !.user1_typing = FALSE,
                                !.user2_typing = FALSE]

\* add_moderation_flag counting a warning for "toxicity" only
Mut_AddModerationFlag(s, flag_type, details, t) ==
  LET a == [s EXCEPT !.moderation_flags =
                       Append(@, [type |-> flag_type, timestamp |-> t,
                                  details |-> details])]
  IN  IF flag_type = "toxicity"
      THEN [a EXCEPT !.toxicity_warnings = @ + 1]
      ELSE a

\* Session.add_moderation_flag; a log that is None counts as the empty log
AddModerationFlag(s, flag_type, details, t) ==
  LET a == [s EXCEPT !.moderation_flags =
                       Append(@, [type |-> flag_type, timestamp |-> t,
                                  details |-> details])]
  IN  IF flag_type \in {"toxicity", "inappropriate_content"}
      THEN [a EXCEPT !.toxicity_warnings = @ + 1]
      ELSE a

(***************************************************************************)
(* One session, calls made one after another                               *)
(***************************************************************************)
\* the record of the last call on the session: its name, its arguments
\* (flag is is_typing), what it returned (flag, for a call that returns a
\* boolean), the time of the call and the session as it was before the call
NoSessionCall(s) ==
  [op |-> "none", user_id |-> Null, arg |-> Null, flag |-> FALSE,
   at |-> StartedAt, pre |-> s]

InitSession ==
  /\ sess = NewSession(User1, User2, StartedAt,
                       DefaultTurnLanguage, DefaultAutoTurnSwitch)
  /\ slast = NoSessionCall(sess)
  /\ spent = [active |-> 0, paused |-> 0, pauses |-> 0]

\* d seconds pass: the clock advances and the session spends them in the
\* state it is in
Elapse(d) ==
  /\ now' = now + d
  /\ spent' = IF sess.state = ACTIVE THEN [spent EXCEPT !.active = @ + d]
              ELSE IF sess.state = PAUSED THEN [spent EXCEPT !.paused = @ + d]
              ELSE spent
  /\ UNCHANGED <<sess, slast, matchVars, orderVars, concVars, mmVars, candVars, scoreVars, rlVars>>

SessionTick ==
  /\ now + SessionTickStep <= SessionMaxTime
  /\ Elapse(SessionTickStep)

TurnTick ==
  /\ now + TurnTickStep <= TurnMaxTime
  /\ Elapse(TurnTickStep)

CallPauseSession ==
  /\ spent.pauses < MaxPauses
  /\ sess' = PauseSession(sess, now)
  /\ slast' = [op |-> "pause_session", user_id |-> Null, arg |-> Null,
               flag |-> FALSE, at |-> now, pre |-> sess]
  /\ spent' = [spent EXCEPT !.pauses = @ + 1]
  /\ UNCHANGED <<now, matchVars, orderVars, concVars, mmVars, candVars, scoreVars, rlVars>>

CallResumeSession ==
  /\ sess' = ResumeSession(sess, now)
  /\ slast' = [op |-> "resume_session", user_id |-> Null, arg |-> Null,
               flag |-> FALSE, at |-> now, pre |-> sess]
  /\ UNCHANGED <<now, spent, matchVars, orderVars, concVars, mmVars, candVars, scoreVars, rlVars>>

CallEndSession ==
  \E reason \in SessionEndReason, by \in EndedBy :
    /\ sess' = EndSession(sess, reason, by, now)
    /\ slast' = [op |-> "end_session", user_id |-> by, arg |-> reason,
                 flag |-> FALSE, at |-> now, pre |-> sess]
    /\ UNCHANGED <<now, spent, matchVars, orderVars, concVars, mmVars, candVars, scoreVars, rlVars>>

CallSetTypingStatus ==
  \E u \in TypingUsers, is_typing \in BOOLEAN :
    /\ sess' = SetTypingStatus(sess, u, is_typing, now)
    /\ slast' = [op |-> "set_typing_status", user_id |-> u, arg |-> Null,
                 flag |-> is_typing, at |-> now, pre |-> sess]
    /\ UNCHANGED <<now, spent, matchVars, orderVars, concVars, mmVars, candVars, scoreVars, rlVars>>

CallSwitchTurnLanguage ==
  /\ sess.turn_switch_count < MaxSwitches
  /\ sess' = SwitchTurnLanguage(sess, now)
  /\ slast' = [op |-> "switch_turn_language", user_id |-> Null,
               arg |-> sess'.current_turn_language,
               flag |-> FALSE, at |-> now, pre |-> sess]
  /\ UNCHANGED <<now, spent, matchVars, orderVars, concVars, mmVars, candVars, scoreVars, rlVars>>

WatchTick ==
  /\ now + WatchTickStep <= WatchMaxTime
  /\ Elapse(WatchTickStep)

CallIsOverdue ==
  /\ slast' = [op |-> "is_overdue", user_id |-> Null, arg |-> Null,
               flag |-> is_overdue(sess, now), at |-> now, pre |-> sess]
  /\ UNCHANGED <<now, sess, spent, matchVars, orderVars, concVars, mmVars,
                 candVars, scoreVars, rlVars>>

CallIsIdle ==
  /\ slast' = [op |-> "is_idle", user_id |-> Null, arg |-> Null,
               flag |-> is_idle(sess, now), at |-> now, pre |-> sess]
  /\ UNCHANGED <<now, sess, spent, matchVars, orderVars, concVars, mmVars,
                 candVars, scoreVars, rlVars>>

CallUpdateActivity ==
  /\ sess' = UpdateActivity(sess, Null, now)
  /\ slast' = [op |-> "update_activity", user_id |-> Null, arg |-> Null,
               flag |-> FALSE, at |-> now, pre |-> sess]
  /\ UNCHANGED <<now, spent, matchVars, orderVars, concVars, mmVars,
                 candVars, scoreVars, rlVars>>

CallAddModerationFlag ==
  \E flag_type \in FlagTypes, details \in FlagDetails :
    /\ Len(sess.moderation_flags) < MaxFlags
    /\ sess' = AddModerationFlag(sess, flag_type, details, now)
    /\ slast' = [op |-> "add_moderation_flag", user_id |-> Null,
                 arg |-> flag_type, flag |-> FALSE, at |-> now, pre |-> sess]
    /\ UNCHANGED <<now, spent, matchVars, orderVars, concVars, mmVars,
                   candVars, scoreVars, rlVars>>

CallIncrementMessageCount ==
  \E u \in MessageSenders :
    /\ sess.total_messages < MaxMessages
    /\ sess' = IncrementMessageCount(sess, u)
    /\ slast' = [op |-> "increment_message_count", user_id |-> u,
                 arg |-> Null, flag |-> FALSE, at |-> now, pre |-> sess]
    /\ UNCHANGED <<now, spent, matchVars, orderVars, concVars, mmVars, candVars, scoreVars, rlVars>>

CallShouldSuggestTurnSwitch ==
  /\ slast' = [op |-> "should_suggest_turn_switch", user_id |-> Null,
               arg |-> Null, flag |-> ShouldSuggestTurnSwitch(sess, now),
               at |-> now, pre |-> sess]
  /\ UNCHANGED <<now, sess, spent, matchVars, orderVars, concVars, mmVars, candVars, scoreVars, rlVars>>

(***************************************************************************)
(* Match.calculate_match_quality_score                                     *)
(***************************************************************************)
\* Factor values are counted in hundredths and weights in hundredths, so a
\* score is counted in ten-thousandths: 10000 is the float 1.0.
\* the keys of the weights dict, in its order
FactorNames ==
  << "level_affinity", "native_target_match", "interest_overlap",
     "timezone_overlap", "quality_score" >>

\* the weights dict
Weight(name) ==
  CASE name = "level_affinity" -> 25
    [] name = "native_target_match" -> 30
    [] name = "interest_overlap" -> 20
    [] name = "timezone_overlap" -> 15
    [] name = "quality_score" -> 10

\* the keys a factor map may hold: the five weighted names and another
FactorKeys ==
  { "level_affinity", "native_target_match", "interest_overlap",
    "timezone_overlap", "quality_score", "mood" }
\* the values a factor may take: -1.0, 0.5, 1.0 and 2.0
FactorValues == {0 - 100, 50, 100, 200}
\* every factor map over those keys and values
FactorMaps == UNION { [K -> FactorValues] : K \in SUBSET FactorKeys }

\* no score computed yet
NoScore == 0 - 1

\* the loop with each factor clamped to [0, 1] before it is weighted
RECURSIVE Mut_WeightedSum(_, _)
Mut_WeightedSum(f, i) ==
  IF i > Len(FactorNames) THEN 0
  ELSE (IF FactorNames[i] \in DOMAIN f
        THEN (IF f[FactorNames[i]] < 0 THEN 0
              ELSE IF f[FactorNames[i]] > 100 THEN 100
              ELSE f[FactorNames[i]]) * Weight(FactorNames[i])
        ELSE 0)
       + Mut_WeightedSum(f, i + 1)

\* the loop "for factor, weight in weights.items()", from the i-th weight on
RECURSIVE WeightedSum(_, _)
WeightedSum(f, i) ==
  IF i > Len(FactorNames) THEN 0
  ELSE (IF FactorNames[i] \in DOMAIN f
        THEN f[FactorNames[i]] * Weight(FactorNames[i])
        ELSE 0)
       + WeightedSum(f, i + 1)

\* min(1.0, max(0.0, score))
Clamp01(x) ==
  LET lo == IF x > 0 THEN x ELSE 0
  IN  IF lo < 10000 THEN lo ELSE 10000

\* Match.calculate_match_quality_score
CalculateMatchQualityScore(f) == Clamp01(WeightedSum(f, 1))

InitScore ==
  /\ factors = << >>
  /\ score = NoScore

CallCalculateMatchQualityScore ==
  /\ score' = CalculateMatchQualityScore(factors)
  /\ UNCHANGED <<now, factors, matchVars, orderVars, concVars, mmVars, sessVars,
                 candVars, rlVars>>

(***************************************************************************)
(* TokenBucket, RedisRateLimiter and RateLimiterMiddleware                 *)
(* (app/core/rate_limiter.py)                                              *)
(***************************************************************************)
\* seconds the clock advances per step while the limiter is studied
LimiterTickStep == 1800
\* the clock of that study stops here
LimiterMaxTime == 10800
\* is_allowed is called at most this many times
MaxRequests == 6
\* dispatch is called at most this many times
MaxDispatches == 6

\* the capacity, refill_rate and refill_period given to TokenBucket(...)
Capacities == {1, 3}
RefillRates == {1, 2}
RefillPeriods == {3600}
\* the amounts given to consume
ConsumeAmounts == {0, 1, 2}

\* TokenBucket.__init__ at time t
TokenBucket(capacity, refill_rate, refill_period, t) ==
  [ capacity |-> capacity,
    tokens |-> capacity,
    refill_rate |-> refill_rate,
    refill_period |-> refill_period,
    last_refill |-> t ]

\* min(a, b)
Min(a, b) == IF a <= b THEN a ELSE b

\* the refill of consume without its min(self.capacity, ...)
Mut_Refill(b, t) ==
  LET elapsed == t - b.last_refill
  IN  IF elapsed >= b.refill_period
      THEN [b EXCEPT !.tokens = @ + b.refill_rate * (elapsed \div b.refill_period),
                     !.last_refill = t]
      ELSE b

\* TokenBucket.consume, "Refill tokens based on elapsed time"
Refill(b, t) ==
  LET elapsed == t - b.last_refill
  IN  IF elapsed >= b.refill_period
      THEN [b EXCEPT !.tokens = Min(b.capacity,
                                    @ + b.refill_rate * (elapsed \div b.refill_period)),
                     !.last_refill = t]
      ELSE b

\* TokenBucket.consume: the bucket after the call and the value returned
Consume(b, tokens, t) ==
  LET r == Refill(b, t)
  IN  IF r.tokens >= tokens
      THEN [b |-> [r EXCEPT !.tokens = @ - tokens], ret |-> TRUE]
      ELSE [b |-> r, ret |-> FALSE]

\* TokenBucket.to_dict
ToDict(b) ==
  [ capacity |-> b.capacity,
    tokens |-> b.tokens,
    refill_rate |-> b.refill_rate,
    refill_period |-> b.refill_period,
    last_refill |-> b.last_refill ]

\* TokenBucket.from_dict at time t: the constructor, then tokens and
\* last_refill taken from the data
FromDict(data, t) ==
  [TokenBucket(data.capacity, data.refill_rate, data.refill_period, t)
     EXCEPT !.tokens = data.tokens, !.last_refill = data.last_refill]

\* RedisRateLimiter.default_limits: the entries "report" and "default"
DefaultLimits(limit_type) ==
  IF limit_type = "report"
  THEN [capacity |-> 5, refill_rate |-> 5, period |-> 3600]
  ELSE [capacity |-> 60, refill_rate |-> 60, period |-> 60]

\* the limit type of the key under study
LimitType == "report"

\* a key that was never set: value holds what is stored under the key, no
\* entry or one
NoKey == [value |-> << >>, expires_at |-> NoTime]

\* RedisRateLimiter._get_bucket at time t; a key set by setex is gone once
\* its expiry has passed
GetBucket(st, limit_type, t) ==
  IF Len(st.value) > 0 /\ t < st.expires_at
  THEN FromDict(st.value[1], t)
  ELSE TokenBucket(DefaultLimits(limit_type).capacity,
                   DefaultLimits(limit_type).refill_rate,
                   DefaultLimits(limit_type).period, t)

\* RedisRateLimiter._save_bucket at time t: the key after setex
SaveBucket(b, t) ==
  [value |-> <<ToDict(b)>>, expires_at |-> t + b.refill_period * 2]

\* RedisRateLimiter.is_allowed run without interruption at time t: the key
\* after the call, what the call returned and its status_info
IsAllowed(st, limit_type, tokens, t) ==
  LET c == Consume(GetBucket(st, limit_type, t), tokens, t)
  IN  [ store |-> SaveBucket(c.b, t),
        allowed |-> c.ret,
        status_info |-> [ allowed |-> c.ret,
                          limit_type |-> limit_type,
                          tokens_remaining |-> c.b.tokens,
                          capacity |-> c.b.capacity,
                          reset_time |-> c.b.last_refill + c.b.refill_period ] ]

\* the record of the last call on the bucket under study: its name, the
\* amount asked, what it returned, the time of the call and the bucket as
\* it was before the call
NoBucketCall(b) ==
  [op |-> "none", arg |-> 0, flag |-> FALSE, at |-> ProposedAt, pre |-> b]

\* the processes that call is_allowed for the same identifier and limit type
Limiters == {"w1", "w2"}

\* an is_allowed call not in progress
NoRequest == [pc |-> "idle", held |-> << >>, allowed |-> FALSE]

\* a middleware that dispatches nothing yet
NoDispatch ==
  [pc |-> "idle", in_try |-> FALSE, route |-> "none", forwarded |-> 0,
   result |-> "none", served |-> 0]

InitBucket ==
  /\ bucket = TokenBucket(3, 2, 3600, ProposedAt)
  /\ blast = NoBucketCall(bucket)

InitLimiter ==
  /\ store = NoKey
  /\ rq = [w \in Limiters |-> NoRequest]
  /\ rlnote = [served |-> 0, granted |-> 0]

InitMiddleware ==
  mw = NoDispatch

InitRL ==
  /\ InitBucket
  /\ InitLimiter
  /\ InitMiddleware

LimiterTick ==
  /\ now + LimiterTickStep <= LimiterMaxTime
  /\ now' = now + LimiterTickStep
  /\ UNCHANGED <<matchVars, orderVars, concVars, mmVars, sessVars, candVars,
                 scoreVars, rlVars>>

CallConsume ==
  \E n \in ConsumeAmounts :
    /\ bucket' = Consume(bucket, n, now).b
    /\ blast' = [op |-> "consume", arg |-> n,
                 flag |-> Consume(bucket, n, now).ret, at |-> now,
                 pre |-> bucket]
    /\ UNCHANGED <<now, store, rq, rlnote, mw, matchVars, orderVars, concVars,
                   mmVars, sessVars, candVars, scoreVars>>

\* is_allowed up to its consume: the bucket is read from Redis and one
\* token is asked of the copy
LimiterGet(w) ==
  /\ rq[w].pc = "idle"
  /\ rlnote.served < MaxRequests
  /\ LET c == Consume(GetBucket(store, LimitType, now), 1, now)
     IN  /\ rq' = [rq EXCEPT ![w] = [pc |-> "consumed", held |-> <<c.b>>,
                                     allowed |-> c.ret]]
         /\ rlnote' = [served |-> rlnote.served + 1,
                       granted |-> IF c.ret /\ now < DefaultLimits(LimitType).period
                                   THEN rlnote.granted + 1
                                   ELSE rlnote.granted]
  /\ UNCHANGED <<now, bucket, blast, store, mw, matchVars, orderVars, concVars,
                 mmVars, sessVars, candVars, scoreVars>>

\* is_allowed from _save_bucket on: the copy is written back and the call
\* returns
LimiterSave(w) ==
  /\ rq[w].pc = "consumed"
  /\ store' = SaveBucket(rq[w].held[1], now)
  /\ rq' = [rq EXCEPT ![w] = NoRequest]
  /\ UNCHANGED <<now, bucket, blast, rlnote, mw, matchVars, orderVars, concVars,
                 mmVars, sessVars, candVars, scoreVars>>

\* RateLimiterMiddleware.exempt_routes
ExemptRoutes == {"/health", "/", "/docs", "/redoc", "/openapi.json"}

\* the paths of the requests dispatched
Paths == {"/health", "/api/v1/report"}

\* RateLimiterMiddleware._get_limit_type, on those paths
GetLimitType(path) ==
  IF path = "/api/v1/report" THEN "report" ELSE "default"

\* dispatch up to its first call_next or to its 429 response; skip is
\* "settings.is_development and not settings.DEBUG", redis_up is whether
\* the Redis commands of is_allowed succeed
DispatchBegin ==
  /\ mw.pc \in {"idle", "done"}
  /\ mw.served < MaxDispatches
  /\ \E path \in Paths, skip \in BOOLEAN, redis_up \in BOOLEAN :
       LET r == IsAllowed(store, GetLimitType(path), 1, now)
           fresh == [mw EXCEPT !.served = @ + 1, !.forwarded = 0,
                               !.result = "none", !.in_try = FALSE]
       IN  IF path \in ExemptRoutes
           THEN /\ mw' = [fresh EXCEPT !.pc = "call_next", !.route = "exempt"]
                /\ store' = store
           ELSE IF skip
           THEN /\ mw' = [fresh EXCEPT !.pc = "call_next", !.route = "skipped"]
                /\ store' = store
           ELSE IF ~redis_up
           THEN /\ mw' = [fresh EXCEPT !.pc = "call_next", !.route = "failed"]
                /\ store' = store
           ELSE IF r.allowed
           THEN /\ mw' = [fresh EXCEPT !.pc = "call_next", !.route = "allowed",
                                       !.in_try = TRUE]
                /\ store' = r.store
           ELSE /\ mw' = [fresh EXCEPT !.pc = "done", !.route = "denied",
                                       !.result = "429"]
                /\ store' = r.store
  /\ UNCHANGED <<now, bucket, blast, rq, rlnote, matchVars, orderVars, concVars,
                 mmVars, sessVars, candVars, scoreVars>>

\* "await call_next(request)": the downstream handler answers or raises; an
\* exception raised inside the try block is caught by "except Exception",
\* whose handler calls call_next
CallNext ==
  /\ mw.pc = "call_next"
  /\ \E raises \in BOOLEAN :
       mw' = IF ~raises
             THEN [mw EXCEPT !.forwarded = @ + 1, !.pc = "done",
                             !.result = "response"]
             ELSE IF mw.in_try
                  THEN [mw EXCEPT !.forwarded = @ + 1, !.in_try = FALSE]
                  ELSE [mw EXCEPT !.forwarded = @ + 1, !.pc = "done",
                                  !.result = "exception"]
  /\ UNCHANGED <<now, bucket, blast, store, rq, rlnote, matchVars, orderVars,
                 concVars, mmVars, sessVars, candVars, scoreVars>>

(***************************************************************************)
(* Specifications                                                          *)
(***************************************************************************)
Init ==
  /\ now = ProposedAt
  /\ InitMatch
  /\ InitOrder
  /\ plan = [u \in Participants |-> "accepted"]
  /\ InitConc
  /\ InitMM
  /\ InitRL
  /\ InitCand
  /\ InitScore
  /\ InitSession

Next ==
  \/ Tick
  \/ CallSetUserResponse
  \/ CallExpireMatch
  \/ CallCreateSession

\* one match, calls made one after another
Spec == Init /\ [][Next]_vars

InitAnyPlan ==
  /\ now = ProposedAt
  /\ InitMatch
  /\ InitOrder
  /\ plan \in [Participants -> Responses]
  /\ InitConc
  /\ InitMM
  /\ InitRL
  /\ InitCand
  /\ InitScore
  /\ InitSession

NextOrder ==
  \/ Tick
  \/ RespondA
  \/ RespondB

\* the same two answers recorded in the two orders
SpecOrder == InitAnyPlan /\ [][NextOrder]_vars

NextConc ==
  \/ Tick
  \/ \E w \in Workers : Load(w)
  \/ \E w \in Workers : Respond(w)
  \/ \E w \in Workers : Commit(w)

\* two workers on one stored row
SpecConc == Init /\ [][NextConc]_vars

NextMM ==
  \/ \E p \in Passes : Select(p)
  \/ \E p \in Passes : ClaimFirst(p)
  \/ \E p \in Passes : ClaimSecond(p)
  \/ \E p \in Passes : InsertMatch(p)
  \/ \E i \in MatchIds : RespondTo(i)
  \/ \E i \in MatchIds : SessionFor(i)
  \/ \E u \in Users : Release(u)

\* concurrent matchmaker passes over the candidates and the matches table
SpecMM == Init /\ [][NextMM]_vars

NextSession ==
  \/ SessionTick
  \/ CallPauseSession
  \/ CallResumeSession
  \/ CallEndSession
  \/ CallSetTypingStatus

\* one session, its lifecycle calls made one after another
SpecSession == Init /\ [][NextSession]_vars

\* a session constructed with any turn language and either setting of the
\* auto-switch flag
InitAnySession ==
  /\ now = ProposedAt
  /\ InitMatch
  /\ InitOrder
  /\ plan = [u \in Participants |-> "accepted"]
  /\ InitConc
  /\ InitMM
  /\ InitRL
  /\ InitCand
  /\ InitScore
  /\ \E lang \in TurnLanguage, auto \in BOOLEAN :
       sess = NewSession(User1, User2, StartedAt, lang, auto)
  /\ slast = NoSessionCall(sess)
  /\ spent = [active |-> 0, paused |-> 0, pauses |-> 0]

NextWatch ==
  \/ WatchTick
  \/ CallIsOverdue
  \/ CallIsIdle
  \/ CallUpdateActivity
  \/ CallPauseSession
  \/ CallResumeSession
  \/ CallEndSession

\* one session watched for overdue and idle while its lifecycle goes on
SpecWatch == Init /\ [][NextWatch]_vars

NextCand ==
  \/ CandTick
  \/ CallAddToQueue
  \/ CallRemoveFromQueue
  \/ CallAddCooldown
  \/ CallAddStrike
  \/ CallIsAvailable

\* one candidate, its registry calls made one after another
SpecCand == Init /\ [][NextCand]_vars

\* a candidate row with any count of today's rejections, its last reset
\* unset or made at time 0
InitAnyCandidate ==
  /\ now = ProposedAt
  /\ InitMatch
  /\ InitOrder
  /\ plan = [u \in Participants |-> "accepted"]
  /\ InitConc
  /\ InitMM
  /\ InitRL
  /\ InitSession
  /\ InitScore
  /\ \E n \in 0..MaxRejectionsSeen, r \in {NoTime, ProposedAt} :
       mc = [NewCandidate EXCEPT !.rejection_count_today = n,
                                 !.last_rejection_reset = r]
  /\ mclast = NoCandCall(mc)
  /\ mcnote = NoNote

NextReject ==
  \/ CandTick
  \/ CallCanRejectMoreToday

\* one candidate asked whether it may reject more today
SpecReject == InitAnyCandidate /\ [][NextReject]_vars

\* any factor map
InitAnyFactors ==
  /\ now = ProposedAt
  /\ InitMatch
  /\ InitOrder
  /\ plan = [u \in Participants |-> "accepted"]
  /\ InitConc
  /\ InitMM
  /\ InitRL
  /\ InitSession
  /\ InitCand
  /\ factors \in FactorMaps
  /\ score = NoScore

NextScore ==
  \/ CallCalculateMatchQualityScore

\* the score of one factor map
SpecScore == InitAnyFactors /\ [][NextScore]_vars

NextFlags ==
  \/ SessionTick
  \/ CallAddModerationFlag
  \/ CallPauseSession

\* one session flagged by moderation while its lifecycle goes on
SpecFlags == Init /\ [][NextFlags]_vars

NextBlock ==
  \/ CallBlockUser
  \/ CallUnblockUser
  \/ CallIsBlockedUser

\* one candidate, its blocklist calls made one after another
SpecBlock == Init /\ [][NextBlock]_vars

NextMessages ==
  CallIncrementMessageCount

\* one session, the messages of its chat counted one after another
SpecMessages == Init /\ [][NextMessages]_vars

\* a bucket made with any of the capacities, rates and periods
InitAnyBucket ==
  /\ now = ProposedAt
  /\ InitMatch
  /\ InitOrder
  /\ plan = [u \in Participants |-> "accepted"]
  /\ InitConc
  /\ InitMM
  /\ InitSession
  /\ InitCand
  /\ InitScore
  /\ InitLimiter
  /\ InitMiddleware
  /\ \E c \in Capacities, r \in RefillRates, p \in RefillPeriods :
       bucket = TokenBucket(c, r, p, ProposedAt)
  /\ blast = NoBucketCall(bucket)

NextBucket ==
  \/ LimiterTick
  \/ CallConsume

\* one TokenBucket, consume called again and again
SpecBucket == InitAnyBucket /\ [][NextBucket]_vars

NextLimiter ==
  \/ LimiterTick
  \/ \E w \in Limiters : LimiterGet(w)
  \/ \E w \in Limiters : LimiterSave(w)

\* two processes calling is_allowed for one identifier and limit type
SpecLimiter == Init /\ [][NextLimiter]_vars

NextDispatch ==
  \/ LimiterTick
  \/ DispatchBegin
  \/ CallNext

\* one middleware, requests dispatched one after another
SpecDispatch == Init /\ [][NextDispatch]_vars

NextTurn ==
  \/ TurnTick
  \/ CallSwitchTurnLanguage
  \/ CallShouldSuggestTurnSwitch

\* one session, its turn calls made one after another
SpecTurn == InitAnySession /\ [][NextTurn]_vars

(***************************************************************************)
(* Properties of one match under sequential calls (Spec)                   *)
(***************************************************************************)
AllowedMatchTransitions ==
  { <<PROPOSED, ACCEPTED>>, <<PROPOSED, REJECTED>>, <<PROPOSED, EXPIRED>>,
    <<ACCEPTED, SESSION_CREATED>> }

Called(op) == last.op = op

\* C1: every change of a Match's state made by set_user_response,
\* expire_match or create_session is Proposed->Accepted, Proposed->Rejected,
\* Proposed->Expired or Accepted->SessionCreated, so a Rejected, Expired or
\* SessionCreated match never changes state again.
C1_OnlyAllowedTransitions ==
  ~Called("none") =>
     \/ match.state = last.pre.state
     \/ <<last.pre.state, match.state>> \in AllowedMatchTransitions

\* the fields C2 says a refused response leaves alone
SameResponseFields(a, b) ==
  /\ a.state = b.state
  /\ a.user1_response = b.user1_response
  /\ a.user2_response = b.user2_response
  /\ a.user1_responded_at = b.user1_responded_at
  /\ a.user2_responded_at = b.user2_responded_at
  /\ a.rejection_reason = b.rejection_reason

\* C2: set_user_response by a participant on a Rejected, Expired or
\* SessionCreated match fails with StateConflict and leaves the state, both
\* responses, both response timestamps and the rejection reason unchanged.
C2_TerminalResponseRefused ==
  ( /\ Called("set_user_response")
    /\ last.user_id \in Participants
    /\ last.pre.state \in TerminalMatchStates )
  => /\ last.result = "StateConflict"
     /\ SameResponseFields(match, last.pre)

\* C3: a match is Accepted only with both responses "accepted", and a match
\* with both responses "accepted" is Accepted or SessionCreated.
C3_AcceptedIffBothAccepted ==
  /\ match.state = ACCEPTED => is_accepted_by_both(match)
  /\ is_accepted_by_both(match) => match.state \in {ACCEPTED, SESSION_CREATED}

\* the rejection reason C4 names for a pair of responses that are not both
\* "accepted"
ClaimedReason(r1, r2) ==
  IF r1 = "rejected" /\ r2 = "rejected" THEN "both_rejected"
  ELSE IF r1 = "rejected" THEN "user1_rejected"
  ELSE "user2_rejected"

\* C4: a response recorded on a Proposed match leaves it Proposed while only
\* one participant has responded; with the second response it becomes
\* Accepted iff both responses are "accepted", and otherwise Rejected with
\* reason both_rejected, user1_rejected or user2_rejected as the rejections
\* are.
C4_ResolutionOnSecondResponse ==
  ( /\ Called("set_user_response")
    /\ last.result = "ok"
    /\ last.pre.state = PROPOSED )
  => IF match.user1_response = Null \/ match.user2_response = Null
     THEN match.state = PROPOSED /\ match.rejection_reason = Null
     ELSE IF match.user1_response = "accepted" /\ match.user2_response = "accepted"
          THEN match.state = ACCEPTED /\ match.rejection_reason = Null
          ELSE /\ match.state = REJECTED
               /\ match.rejection_reason =
                    ClaimedReason(match.user1_response, match.user2_response)

\* C4's case: user2's rejection arrives second on a Proposed match that
\* user1 had accepted
C4_Witness ==
  /\ Called("set_user_response")
  /\ last.pre.state = PROPOSED
  /\ last.pre.user1_response = "accepted"
  /\ last.pre.user2_response = Null
  /\ last.user_id = User2
  /\ last.arg = "rejected"
  /\ match.state = REJECTED
  /\ match.rejection_reason = "user2_rejected"

\* C9: expire_match acts only on a Proposed match past expires_at; on a match
\* in another state, or before expires_at, it changes neither the state nor
\* the responses.
C9_ExpireOnlyWhenDue ==
  ( /\ Called("expire_match")
    /\ ~(last.pre.state = PROPOSED /\ last.at > last.pre.expires_at) )
  => /\ match.state = last.pre.state
     /\ match.user1_response = last.pre.user1_response
     /\ match.user2_response = last.pre.user2_response

\* what expire_match is said to make of one response
Expired1(r) == IF r = Null THEN "timeout" ELSE r

\* C10: expire_match on a Proposed match makes the state Expired, turns each
\* unset response into "timeout" and keeps each recorded response; with no
\* response recorded both become "timeout".
C10_ExpireFillsOnlyUnset ==
  ( /\ Called("expire_match")
    /\ last.pre.state = PROPOSED )
  => /\ match.state = EXPIRED
     /\ match.user1_response = Expired1(last.pre.user1_response)
     /\ match.user2_response = Expired1(last.pre.user2_response)
     /\ match.user1_responded_at = last.pre.user1_responded_at
     /\ match.user2_responded_at = last.pre.user2_responded_at

\* C10's case: the proposal of time 0 is swept after expires_at with user1's
\* "accepted" recorded and user2 silent
C10_Witness ==
  /\ Called("expire_match")
  /\ last.pre.state = PROPOSED
  /\ last.at > last.pre.expires_at
  /\ last.pre.user1_response = "accepted"
  /\ last.pre.user2_response = Null
  /\ match.state = EXPIRED
  /\ match.user1_response = "accepted"
  /\ match.user2_response = "timeout"

\* C11: create_session succeeds only on an Accepted match and on a match in
\* any other state leaves state and session_id unchanged; once a match is
\* SessionCreated no later set_user_response, expire_match or create_session
\* changes its state or its session_id.
C11_CreateSessionOnlyOnAccepted ==
  /\ (Called("create_session") /\ last.pre.state # ACCEPTED)
       => /\ match.state = last.pre.state
          /\ match.session_id = last.pre.session_id
  /\ (~Called("none") /\ last.pre.state = SESSION_CREATED)
       => /\ match.state = SESSION_CREATED
          /\ match.session_id = last.pre.session_id

\* C12: set_user_response by a user who is neither user1 nor user2 of the
\* match raises ValueError and leaves the state, both responses and both
\* response timestamps as they were.
C12_StrangerRefused ==
  ( /\ Called("set_user_response")
    /\ last.user_id # last.pre.user1_id
    /\ last.user_id # last.pre.user2_id )
  => /\ last.result = "ValueError"
     /\ match.state = last.pre.state
     /\ match.user1_response = last.pre.user1_response
     /\ match.user2_response = last.pre.user2_response
     /\ match.user1_responded_at = last.pre.user1_responded_at
     /\ match.user2_responded_at = last.pre.user2_responded_at

\* C12's case: a third user answers a Proposed match that user1 has
\* accepted and user2 has not answered
C12_Witness ==
  /\ Called("set_user_response")
  /\ last.user_id = Stranger
  /\ last.result = "ValueError"
  /\ last.pre.state = PROPOSED
  /\ last.pre.user1_response = "accepted"
  /\ last.pre.user2_response = Null
  /\ match = last.pre

\* C30: on a Proposed match, once both participants have responded
\* "accepted" no later than expires_at the match is Accepted; create_session
\* on the Accepted match makes it SessionCreated and stores the session id;
\* and the session, constructed with the column defaults, is Active with turn
\* language User1Native and both duration counters 0.
C30_AcceptedThenSessionCreated ==
  /\ ( /\ Called("set_user_response")
       /\ last.pre.state = PROPOSED
       /\ is_accepted_by_both(match)
       /\ match.user1_responded_at <= match.expires_at
       /\ match.user2_responded_at <= match.expires_at )
     => /\ match.state = ACCEPTED
        /\ match.session_id = Null
  /\ (Called("create_session") /\ last.pre.state = ACCEPTED)
     => /\ match.state = SESSION_CREATED
        /\ match.session_id = last.arg
        /\ sess.state = ACTIVE
        /\ sess.current_turn_language = USER1_NATIVE
        /\ sess.active_duration_seconds = 0
        /\ sess.paused_duration_seconds = 0

\* C30's case: both accepted, the second at 90 = expires_at, and the session
\* of the Accepted match is created
C30_Witness ==
  /\ Called("create_session")
  /\ last.pre.state = ACCEPTED
  /\ last.pre.accepted_at = last.pre.expires_at
  /\ last.pre.user1_responded_at < last.pre.user2_responded_at
  /\ match.state = SESSION_CREATED
  /\ match.session_id = "s2"

(***************************************************************************)
(* Properties of the two orders of response (SpecOrder)                    *)
(***************************************************************************)
\* C5: for every pair of responses recorded on a Proposed match, the state
\* and the rejection reason are the same whether user1 answers before or
\* after user2, and two rejections always give "both_rejected".
C5_OrderIndependent ==
  ( /\ ordA.user1_response # Null /\ ordA.user2_response # Null
    /\ ordB.user1_response # Null /\ ordB.user2_response # Null )
  => /\ ordA.state = ordB.state
     /\ ordA.rejection_reason = ordB.rejection_reason
     /\ ordA.state # PROPOSED
     /\ (plan[User1] = "rejected" /\ plan[User2] = "rejected")
          => ordA.rejection_reason = "both_rejected"

\* C5's case: both reject, user1 first on ordA and user2 first on ordB, the
\* second answer later than the first
C5_Witness ==
  /\ plan[User1] = "rejected" /\ plan[User2] = "rejected"
  /\ ordA.user2_response = "rejected" /\ ordB.user1_response = "rejected"
  /\ ordA.user1_responded_at < ordA.user2_responded_at
  /\ ordB.user2_responded_at < ordB.user1_responded_at
  /\ ordA.state = REJECTED /\ ordB.state = REJECTED

(***************************************************************************)
(* Properties of two workers on one row (SpecConc)                         *)
(***************************************************************************)
\* C6: when the two participants record their responses concurrently, the
\* stored match never ends with both responses set and the state still
\* Proposed: once both responses are stored it is Accepted or Rejected.
C6_ResolvedOnceBothStored ==
  ( /\ \A w \in Workers : wk[w].pc = "done"
    /\ row.user1_response # Null
    /\ row.user2_response # Null )
  => row.state \in {ACCEPTED, REJECTED}

(***************************************************************************)
(* Properties of the matchmaker (SpecMM)                                   *)
(***************************************************************************)
\* C7: under any interleaving of matchmaker passes no candidate is in two
\* non-terminal (Proposed or Accepted) matches at once, and both candidates
\* of a non-terminal match hold status Proposed: the pairing was committed
\* only after both were claimed.
C7_NoDoubleBooking ==
  /\ \A u \in Users : Cardinality(ActiveMatchesOf(u)) <= 1
  /\ \A i \in MatchIds :
       matches[i].state \notin TerminalMatchStates
         => /\ cand[matches[i].user1_id].status = CAND_PROPOSED
            /\ cand[matches[i].user2_id].status = CAND_PROPOSED
            /\ cand[matches[i].user1_id].current_match_id = i
            /\ cand[matches[i].user2_id].current_match_id = i

\* C7's case: a pass lost the claim of a candidate that another pass had
\* claimed, and that candidate is in the one match the winner committed
C7_Witness ==
  /\ mmlast.result = "ConcurrencyConflict"
  /\ \E i \in MatchIds :
       /\ matches[i].state = PROPOSED
       /\ \/ IsParticipant(matches[i], mmlast.a)
          \/ IsParticipant(matches[i], mmlast.b)
       /\ ~(IsParticipant(matches[i], mmlast.a) /\ IsParticipant(matches[i], mmlast.b))

\* C8: there is at most one non-terminal match per unordered pair of users,
\* (a, b) and (b, a) counting as the same pair, and a terminal match of the
\* pair does not prevent a later new match of the same two users: an insert
\* for a pair with no non-terminal match is not refused.
C8_OneActivePerPairRematchAllowed ==
  /\ \A a \in Users, b \in Users :
       a # b => Cardinality(ActiveMatchesOfPair(a, b)) <= 1
  /\ (mmlast.op = "insert" /\ ~mmlast.had_active) => mmlast.result = "ok"

(***************************************************************************)
(* Properties of one session under sequential lifecycle calls (SpecSession)*)
(***************************************************************************)
SCalled(op) == slast.op = op

\* the states the lifecycle calls are said to leave alone
TerminalSessionStates == {ENDED, DROPPED, SESSION_EXPIRED}

\* C13: after any sequence of pause_session and resume_session calls followed
\* by end_session, active_duration_seconds is the time the session spent
\* Active and paused_duration_seconds the time it spent Paused (start at 0,
\* pause at 60, resume at 120, end at 180 gives 120 and 60).
C13_DurationsAreTimeInState ==
  sess.state \in TerminalSessionStates
    => /\ sess.active_duration_seconds = spent.active
       /\ sess.paused_duration_seconds = spent.paused

\* C14: at every moment active_duration_seconds + paused_duration_seconds is
\* at most the time elapsed since started_at, counted up to ended_at once the
\* session has ended.
C14_CountersWithinElapsed ==
  sess.active_duration_seconds + sess.paused_duration_seconds
    <= (IF sess.ended_at # NoTime THEN sess.ended_at ELSE now) - sess.started_at

\* C15: on an Ended, Dropped or Expired session end_session does nothing, and
\* neither pause_session, resume_session nor end_session changes the state,
\* the two duration counters, ended_at, end_reason or ended_by_user_id.
C15_TerminalIsFinal ==
  ( /\ slast.op \in {"pause_session", "resume_session", "end_session"}
    /\ slast.pre.state \in TerminalSessionStates )
  => /\ sess.state = slast.pre.state
     /\ sess.active_duration_seconds = slast.pre.active_duration_seconds
     /\ sess.paused_duration_seconds = slast.pre.paused_duration_seconds
     /\ sess.ended_at = slast.pre.ended_at
     /\ sess.end_reason = slast.pre.end_reason
     /\ sess.ended_by_user_id = slast.pre.ended_by_user_id
     /\ SCalled("end_session") => sess = slast.pre

\* C15's case: a session Dropped at an earlier time is ended again, with
\* reason Completed
C15_Witness ==
  /\ SCalled("end_session")
  /\ slast.arg = COMPLETED
  /\ slast.pre.state = DROPPED
  /\ slast.pre.ended_at < slast.at
  /\ sess.state = DROPPED
  /\ sess.ended_at = slast.pre.ended_at

\* the end state C16 names for each reason
ClaimedEndState(reason) ==
  CASE reason = COMPLETED -> ENDED
    [] reason = MAXIMUM_DURATION -> SESSION_EXPIRED
    [] reason \in {USER_LEFT, INACTIVITY, TECHNICAL_ERROR, MODERATION} -> DROPPED

\* C16: end_session on an Active or Paused session makes the state Ended for
\* Completed, Expired for MaximumDuration and Dropped for UserLeft,
\* Inactivity, TechnicalError and Moderation, and makes both typing flags
\* false.
C16_EndStateFromReason ==
  ( /\ SCalled("end_session")
    /\ slast.pre.state \in {ACTIVE, PAUSED} )
  => /\ sess.state = ClaimedEndState(slast.arg)
     /\ sess.user1_typing = FALSE
     /\ sess.user2_typing = FALSE

\* C16's case: a Paused session in which user2 is typing is ended for
\* MaximumDuration
C16_Witness ==
  /\ SCalled("end_session")
  /\ slast.arg = MAXIMUM_DURATION
  /\ slast.pre.state = PAUSED
  /\ slast.pre.user2_typing
  /\ sess.state = SESSION_EXPIRED
  /\ ~sess.user2_typing

\* C17: a Paused session ended with UserLeft d seconds after its pause is
\* Dropped, its paused_duration_seconds is d more than before and, when it
\* was never resumed, is d; its active_duration_seconds is what the pause
\* recorded.
C17_EndWhilePaused ==
  ( /\ SCalled("end_session")
    /\ slast.arg = USER_LEFT
    /\ slast.pre.state = PAUSED )
  => /\ sess.state = DROPPED
     /\ sess.paused_duration_seconds =
          slast.pre.paused_duration_seconds + (slast.at - slast.pre.paused_at)
     /\ sess.paused_duration_seconds = spent.paused
     /\ sess.active_duration_seconds = slast.pre.active_duration_seconds

\* C17's case: paused at 60 after 60 seconds Active, never resumed, ended with
\* UserLeft at 180
C17_Witness ==
  /\ SCalled("end_session")
  /\ slast.arg = USER_LEFT
  /\ slast.pre.state = PAUSED
  /\ slast.pre.paused_at = 60
  /\ slast.pre.paused_duration_seconds = 0
  /\ slast.at = 180
  /\ sess.state = DROPPED
  /\ sess.paused_duration_seconds = 120
  /\ sess.active_duration_seconds = 60

\* C18: pause_session on a session that is not Active and resume_session on
\* a session that is not Paused change no field, and the only changes of
\* state between Active and Paused are Active->Paused by pause_session and
\* Paused->Active by resume_session.
C18_PauseResumeGuards ==
  /\ (SCalled("pause_session") /\ slast.pre.state # ACTIVE) => sess = slast.pre
  /\ (SCalled("resume_session") /\ slast.pre.state # PAUSED) => sess = slast.pre
  /\ (sess.state # slast.pre.state /\ sess.state \in {ACTIVE, PAUSED})
       => \/ /\ SCalled("pause_session")
             /\ slast.pre.state = ACTIVE /\ sess.state = PAUSED
          \/ /\ SCalled("resume_session")
             /\ slast.pre.state = PAUSED /\ sess.state = ACTIVE

\* C18's case: pause_session is called, later than the first pause, on a
\* session that is already Paused
C18_Witness ==
  /\ SCalled("pause_session")
  /\ slast.pre.state = PAUSED
  /\ slast.pre.paused_at < slast.at
  /\ sess = slast.pre

(***************************************************************************)
(* Properties of one session under sequential turn calls (SpecTurn)        *)
(***************************************************************************)
\* the turn language C19 names after a switch
ClaimedNextTurn(lang) ==
  CASE lang = USER1_NATIVE -> USER2_NATIVE
    [] lang = USER2_NATIVE -> USER1_NATIVE
    [] lang = MIXED -> USER1_NATIVE

\* C19: switch_turn_language turns User1Native into User2Native, User2Native
\* into User1Native and Mixed into User1Native, sets turn_switched_at to the
\* time of the call and adds exactly 1 to turn_switch_count; after any call
\* the turn language is not Mixed.
C19_SwitchTurnCycle ==
  /\ SCalled("switch_turn_language")
       => /\ sess.current_turn_language =
               ClaimedNextTurn(slast.pre.current_turn_language)
          /\ slast.arg = sess.current_turn_language
          /\ sess.turn_switched_at = slast.at
          /\ sess.turn_switch_count = slast.pre.turn_switch_count + 1
  /\ sess.turn_switch_count > 0
       => sess.current_turn_language \in {USER1_NATIVE, USER2_NATIVE}

\* C19's case: the second switch of a session constructed with Mixed, which
\* the first switch had made User1Native
C19_Witness ==
  /\ SCalled("switch_turn_language")
  /\ slast.pre.current_turn_language = USER1_NATIVE
  /\ slast.pre.turn_switch_count = 1
  /\ slast.pre.turn_switched_at < slast.at
  /\ sess.current_turn_language = USER2_NATIVE
  /\ sess.turn_switch_count = 2
  /\ \E auto \in BOOLEAN :
       SwitchTurnLanguage(NewSession(User1, User2, StartedAt, MIXED, auto),
                          slast.pre.turn_switched_at) = slast.pre

\* C20: should_suggest_turn_switch returns true iff auto-switch is enabled,
\* turn_switched_at is set and more than 10 minutes (600 seconds) have
\* passed since turn_switched_at; on a session whose turn was never switched
\* it returns false at any time.
C20_SuggestIffIntervalPassed ==
  SCalled("should_suggest_turn_switch")
    => /\ slast.flag <=> ( /\ sess.auto_turn_switch_enabled
                           /\ sess.turn_switched_at # NoTime
                           /\ slast.at - sess.turn_switched_at > 600 )
       /\ sess.turn_switch_count = 0 => ~slast.flag
       /\ sess = slast.pre

\* C20's case: the turn was switched at 0 with auto-switch enabled and the
\* question is asked at 900, more than 10 minutes later
C20_Witness ==
  /\ SCalled("should_suggest_turn_switch")
  /\ sess.auto_turn_switch_enabled
  /\ sess.turn_switched_at = 0
  /\ slast.at = 900
  /\ slast.flag

(***************************************************************************)
(* Properties of one watched session (SpecWatch)                           *)
(***************************************************************************)
\* C21: is_overdue and is_idle change no field of the session; on an Active
\* or Paused session is_overdue is true iff more than planned_duration_minutes
\* have passed since started_at and is_idle iff more than 15 minutes (900
\* seconds) have passed since last_activity_at; and however long a session
\* has been overdue or idle it is Active or Paused until end_session is
\* called: a session in an end state has an ended_at and an end_reason, and
\* a state changes only by pause_session, resume_session or end_session.
C21_QueriesOnly ==
  /\ slast.op \in {"is_overdue", "is_idle"} => sess = slast.pre
  /\ (SCalled("is_overdue") /\ sess.state \in {ACTIVE, PAUSED})
       => (slast.flag <=>
             slast.at - sess.started_at > sess.planned_duration_minutes * 60)
  /\ (SCalled("is_idle") /\ sess.state \in {ACTIVE, PAUSED})
       => (slast.flag <=> slast.at - sess.last_activity_at > 900)
  /\ sess.state \in TerminalSessionStates
       => sess.ended_at # NoTime /\ sess.end_reason # Null
  /\ sess.state # slast.pre.state
       => /\ slast.op \in {"pause_session", "resume_session", "end_session"}
          /\ sess.state \in TerminalSessionStates => SCalled("end_session")

\* C21's case: a session paused at the start is asked at 2000 whether it is
\* overdue: it is, it is idle too, and it is still Paused
C21_Witness ==
  /\ SCalled("is_overdue")
  /\ slast.flag
  /\ slast.at = 2000
  /\ is_idle(sess, now)
  /\ sess.state = PAUSED
  /\ sess.paused_at = 0

(***************************************************************************)
(* Properties of one flagged session (SpecFlags)                           *)
(***************************************************************************)
\* the flag types that count as toxicity warnings
WarningTypes == {"toxicity", "inappropriate_content"}

\* C22: add_moderation_flag appends exactly one entry, of the given type, to
\* the end of moderation_flags and leaves the earlier entries as they were,
\* adds 1 to toxicity_warnings exactly when the type is "toxicity" or
\* "inappropriate_content", and never changes the state; no other call
\* touches the log or the counter, so toxicity_warnings is always the number
\* of entries of those two types.
C22_FlagsAppendOnly ==
  /\ SCalled("add_moderation_flag")
       => /\ Len(sess.moderation_flags) = Len(slast.pre.moderation_flags) + 1
          /\ SubSeq(sess.moderation_flags, 1, Len(slast.pre.moderation_flags))
               = slast.pre.moderation_flags
          /\ sess.moderation_flags[Len(sess.moderation_flags)].type = slast.arg
          /\ sess.moderation_flags[Len(sess.moderation_flags)].timestamp = slast.at
          /\ sess.toxicity_warnings =
               slast.pre.toxicity_warnings
                 + (IF slast.arg \in WarningTypes THEN 1 ELSE 0)
          /\ sess.state = slast.pre.state
  /\ ~SCalled("add_moderation_flag")
       => /\ sess.moderation_flags = slast.pre.moderation_flags
          /\ sess.toxicity_warnings = slast.pre.toxicity_warnings
  /\ sess.toxicity_warnings =
       Cardinality({ i \in 1..Len(sess.moderation_flags) :
                       sess.moderation_flags[i].type \in WarningTypes })

\* C22's case: a Paused session with a "spam" and a "toxicity" entry is
\* flagged for "inappropriate_content": third entry, second warning
C22_Witness ==
  /\ SCalled("add_moderation_flag")
  /\ slast.arg = "inappropriate_content"
  /\ Len(slast.pre.moderation_flags) = 2
  /\ slast.pre.moderation_flags[1].type = "spam"
  /\ slast.pre.moderation_flags[2].type = "toxicity"
  /\ sess.toxicity_warnings = 2
  /\ sess.state = PAUSED

(***************************************************************************)
(* Properties of one candidate under sequential calls (SpecCand)           *)
(***************************************************************************)
CCalled(op) == mclast.op = op

\* C23: at every time is_available is true iff the status is Idle,
\* strike_count is below 3 and is_in_cooldown is false, that is iff
\* cooldown_until is unset or not in the future.
C23_AvailableIff ==
  /\ is_available(mc, now)
       <=> (mc.status = IDLE /\ mc.strike_count < 3 /\ ~is_in_cooldown(mc, now))
  /\ CCalled("is_available")
       => /\ mc = mclast.pre
          /\ mclast.flag
               <=> ( /\ mc.status = IDLE
                     /\ mc.strike_count < 3
                     /\ (mc.cooldown_until = NoTime \/ mc.cooldown_until <= mclast.at) )

\* C23's case: an Idle candidate with no strike whose cooldown_until is
\* exactly now is asked whether it is available: it is
C23_Witness ==
  /\ CCalled("is_available")
  /\ mc.status = IDLE
  /\ mc.strike_count = 0
  /\ mc.cooldown_until = mclast.at
  /\ mclast.at > 0
  /\ mclast.flag

\* C24: under any sequence of add_to_queue, remove_from_queue, add_cooldown
\* and add_strike, strike_count >= 3 implies status Cooldown, cooldown_reason
\* "excessive_strikes" and cooldown_until 24 hours after the latest strike
\* that reached or exceeded 3.
C24_StrikesForceCooldown ==
  mc.strike_count >= 3
    => /\ mc.status = COOLDOWN
       /\ mc.cooldown_reason = "excessive_strikes"
       /\ mc.cooldown_until = mcnote.struck_at + 24 * 60 * 60

\* C25: add_strike adds exactly 1 to strike_count; while the new count is
\* below 3 it changes neither the status nor cooldown_until nor
\* cooldown_reason; the strike that makes the count 3 on an Idle candidate
\* sets status Cooldown, cooldown_until = now + 24 h and cooldown_reason
\* "excessive_strikes".
C25_StrikeCountsAndCoolsDown ==
  CCalled("add_strike")
    => /\ mc.strike_count = mclast.pre.strike_count + 1
       /\ mc.strike_count < 3
            => /\ mc.status = mclast.pre.status
               /\ mc.cooldown_until = mclast.pre.cooldown_until
               /\ mc.cooldown_reason = mclast.pre.cooldown_reason
       /\ (mc.strike_count = 3 /\ mclast.pre.status = IDLE)
            => /\ mc.status = COOLDOWN
               /\ mc.cooldown_until = mclast.at + 24 * 60 * 60
               /\ mc.cooldown_reason = "excessive_strikes"

\* C25's case: the third strike, on an Idle candidate that was never in
\* cooldown, half a day after the start
C25_Witness ==
  /\ CCalled("add_strike")
  /\ mclast.pre.status = IDLE
  /\ mclast.pre.strike_count = 2
  /\ mclast.pre.cooldown_until = NoTime
  /\ mclast.at = 43200
  /\ mc.status = COOLDOWN
  /\ mc.cooldown_until = 43200 + 86400

\* C26: a Queued candidate has queued_at set and the queue_priority given to
\* the latest add_to_queue; a candidate in Cooldown has cooldown_until set.
C26_QueuedAndCooldownFieldsSet ==
  /\ mc.status = QUEUED
       => /\ mc.queued_at # NoTime
          /\ mc.queue_priority = mcnote.enq_priority
  /\ mc.status = COOLDOWN => mc.cooldown_until # NoTime

\* C26's case: a candidate enqueued with priority 1 after a cooldown and a
\* dequeue takes a first strike later and is still Queued
C26_Witness ==
  /\ CCalled("add_strike")
  /\ mc.status = QUEUED
  /\ mc.queue_priority = 1
  /\ mc.queued_at # NoTime
  /\ mc.queued_at < mclast.at
  /\ mc.cooldown_until # NoTime

\* C27: a candidate put in Cooldown with fewer than 3 strikes and not touched
\* since is available once cooldown_until has passed.
C27_AvailableAfterCooldown ==
  ( /\ CCalled("add_cooldown")
    /\ mc.strike_count < 3
    /\ now > mc.cooldown_until )
  => is_available(mc, now)

(***************************************************************************)
(* Properties of the daily rejection limit (SpecReject)                    *)
(***************************************************************************)
\* C28: can_reject_more_today(max) returns whether rejection_count_today,
\* after the reset, is below max; the reset makes the count 0 and stamps
\* last_rejection_reset exactly when last_rejection_reset was unset or on an
\* earlier UTC date than today; otherwise, as on a second call on the same
\* date, the count and the reset timestamp are unchanged.
C28_LazyDailyReset ==
  CCalled("can_reject_more_today")
    => LET due == \/ mclast.pre.last_rejection_reset = NoTime
                  \/ mclast.pre.last_rejection_reset \div 86400
                       < mclast.at \div 86400
       IN  /\ mclast.flag <=> mc.rejection_count_today < mclast.arg
           /\ due => /\ mc.rejection_count_today = 0
                     /\ mc.last_rejection_reset = mclast.at
           /\ ~due => mc = mclast.pre
           /\ mc.last_rejection_reset \div 86400 = mclast.at \div 86400

\* C28's case: two rejections counted on day 0, the question asked with
\* max 1 at the first instant of day 1
C28_Witness ==
  /\ CCalled("can_reject_more_today")
  /\ mclast.arg = 1
  /\ mclast.pre.rejection_count_today = 2
  /\ mclast.pre.last_rejection_reset = 0
  /\ mclast.at = 86400
  /\ mc.rejection_count_today = 0
  /\ mclast.flag

(***************************************************************************)
(* Properties of the match quality score (SpecScore)                       *)
(***************************************************************************)
\* a factor as C29 counts it: 0 when absent
ClaimedFactor(f, name) == IF name \in DOMAIN f THEN f[name] ELSE 0

\* the weighted sum C29 names, in ten-thousandths
ClaimedSum(f) ==
    25 * ClaimedFactor(f, "level_affinity")
  + 30 * ClaimedFactor(f, "native_target_match")
  + 20 * ClaimedFactor(f, "interest_overlap")
  + 15 * ClaimedFactor(f, "timezone_overlap")
  + 10 * ClaimedFactor(f, "quality_score")

\* C29: for every factor map the score is the weighted sum (level_affinity
\* .25, native_target_match .30, interest_overlap .20, timezone_overlap .15,
\* quality_score .10), absent factors counting 0 and other names ignored,
\* clamped to [0, 1] after the summation only; it lies in [0, 1], a repeated
\* call gives the same result, and the call changes nothing of the match.
C29_ScoreIsClampedWeightedSum ==
  /\ score # NoScore
       => /\ score = (IF ClaimedSum(factors) < 0 THEN 0
                      ELSE IF ClaimedSum(factors) > 10000 THEN 10000
                      ELSE ClaimedSum(factors))
          /\ score >= 0 /\ score <= 10000
          /\ score = CalculateMatchQualityScore(factors)
  /\ match = NewMatch(User1, User2, ProposedAt)

\* C29's case: level_affinity 2.0, native_target_match 0.5 and an unknown
\* factor "mood": 2.0 * .25 + 0.5 * .30 = 0.65
C29_Witness ==
  /\ DOMAIN factors = {"level_affinity", "native_target_match", "mood"}
  /\ factors["level_affinity"] = 200
  /\ factors["native_target_match"] = 50
  /\ score = 6500

(***************************************************************************)
(* Further properties of one match under sequential calls (Spec)           *)
(***************************************************************************)
\* C33: a match does not become Accepted after its proposal TTL has run
\* out: a response recorded by set_user_response later than expires_at,
\* whether or not expire_match was called before, does not move the match
\* to Accepted.
C33_NoAcceptAfterTTL ==
  ( /\ Called("set_user_response")
    /\ last.result = "ok"
    /\ last.at > last.pre.expires_at
    /\ last.pre.state # ACCEPTED )
  => match.state # ACCEPTED

(***************************************************************************)
(* Further properties of one candidate under sequential calls (SpecCand)   *)
(***************************************************************************)
\* C34: add_to_queue and remove_from_queue, called on a candidate that is
\* Proposed, Matched or in a Cooldown that has not run out, do not make its
\* status Queued or Idle.
C34_ProtectedStatusKept ==
  ( /\ (CCalled("add_to_queue") \/ CCalled("remove_from_queue"))
    /\ \/ mclast.pre.status \in {CAND_PROPOSED, MATCHED}
       \/ /\ mclast.pre.status = COOLDOWN
          /\ mclast.pre.cooldown_until # NoTime
          /\ mclast.at < mclast.pre.cooldown_until )
  => mc.status \notin {QUEUED, IDLE}

(***************************************************************************)
(* Further properties of one session under lifecycle calls (SpecSession)   *)
(***************************************************************************)
\* C35: while the session is Active or Paused, paused_at is set if and only
\* if the state is Paused, under any sequence of pause_session,
\* resume_session and end_session.
C35_PausedAtIffPaused ==
  sess.state \in {ACTIVE, PAUSED}
    => (sess.paused_at # NoTime <=> sess.state = PAUSED)

\* C35's case: a session paused at 60 is resumed at 120: it is Active again
\* and paused_at is unset
C35_Witness ==
  /\ SCalled("resume_session")
  /\ slast.pre.state = PAUSED
  /\ slast.pre.paused_at = 60
  /\ slast.at = 120
  /\ sess.state = ACTIVE
  /\ sess.paused_at = NoTime

\* C36: in every state in which the session is Ended, Dropped or Expired
\* both user1_typing and user2_typing are false, under any sequence of
\* set_typing_status, pause_session, resume_session and end_session.
C36_NoTypingAfterEnd ==
  sess.state \in TerminalSessionStates
    => (~sess.user1_typing /\ ~sess.user2_typing)

(***************************************************************************)
(* Properties of one candidate's blocklist (SpecBlock)                     *)
(***************************************************************************)
\* how many entries of the blocklist are the given user
BlockEntries(c, u) ==
  Cardinality({i \in DOMAIN c.blocked_user_ids : c.blocked_user_ids[i] = u})

\* the blocked status of every user but u is the same in a and b
SameOtherBlocks(a, b, u) ==
  \A v \in BlockTargets \ {u} : is_blocked_user(a, v) <=> is_blocked_user(b, v)

\* C32: after block_user(u), is_blocked_user(u) is true; block_user of an
\* already blocked user changes nothing, so no user is listed twice; after
\* unblock_user(u), following any number of block_user(u), is_blocked_user(u)
\* is false; neither call changes whether any other user is blocked.
C32_BlocklistIsASet ==
  /\ \A u \in BlockTargets : BlockEntries(mc, u) <= 1
  /\ CCalled("block_user")
       => /\ is_blocked_user(mc, mclast.arg)
          /\ BlockEntries(mc, mclast.arg) = 1
          /\ is_blocked_user(mclast.pre, mclast.arg) => mc = mclast.pre
          /\ SameOtherBlocks(mc, mclast.pre, mclast.arg)
  /\ CCalled("unblock_user")
       => /\ ~is_blocked_user(mc, mclast.arg)
          /\ SameOtherBlocks(mc, mclast.pre, mclast.arg)
  /\ CCalled("is_blocked_user")
       => /\ mc = mclast.pre
          /\ mclast.flag <=> is_blocked_user(mc, mclast.arg)

\* C32's case: with user1 and user2 blocked, user1 is unblocked: user1 is
\* no longer blocked and user2 still is
C32_Witness ==
  /\ CCalled("unblock_user")
  /\ mclast.arg = User1
  /\ mclast.pre.blocked_user_ids = <<User1, User2>>
  /\ mc.blocked_user_ids = <<User2>>

(***************************************************************************)
(* Properties of one session's message counters (SpecMessages)             *)
(***************************************************************************)
\* C37: in every state total_messages = user1_message_count +
\* user2_message_count, for any sequence of increment_message_count calls
\* with any user ids.
C37_TotalIsSumOfUserCounts ==
  sess.total_messages = sess.user1_message_count + sess.user2_message_count

(***************************************************************************)
(* Properties of one TokenBucket (SpecBucket)                              *)
(***************************************************************************)
BCalled(op) == blast.op = op

\* what C38 says the bucket holds after the refill step of a consume call
ClaimedFill(pre, t) ==
  IF t - pre.last_refill >= pre.refill_period
  THEN Min(pre.capacity,
           pre.tokens + pre.refill_rate * ((t - pre.last_refill) \div pre.refill_period))
  ELSE pre.tokens

\* C38: with amounts >= 0, always 0 <= tokens <= capacity; consume(n)
\* returns true exactly when tokens >= n after the refill step, and then
\* tokens goes down by exactly n; when it returns false tokens is not
\* decreased; a refill happens only once a full refill_period has elapsed
\* and adds refill_rate per whole elapsed period, capped at capacity.
C38_BucketWithinCapacity ==
  /\ 0 <= bucket.tokens
  /\ bucket.tokens <= bucket.capacity
  /\ BCalled("consume")
       => /\ blast.flag <=> ClaimedFill(blast.pre, blast.at) >= blast.arg
          /\ blast.flag
               => bucket.tokens = ClaimedFill(blast.pre, blast.at) - blast.arg
          /\ ~blast.flag
               => /\ bucket.tokens = ClaimedFill(blast.pre, blast.at)
                  /\ bucket.tokens >= blast.pre.tokens
          /\ blast.at - blast.pre.last_refill < blast.pre.refill_period
               => /\ bucket.last_refill = blast.pre.last_refill
                  /\ bucket.tokens <= blast.pre.tokens
          /\ blast.at - blast.pre.last_refill >= blast.pre.refill_period
               => bucket.last_refill = blast.at

\* C38's case: an empty bucket of capacity 3 and rate 2 is asked for one
\* token two and a half periods after its last refill: 4 tokens are due, 3
\* fit, 2 are left
C38_Witness ==
  /\ BCalled("consume")
  /\ blast.arg = 1
  /\ blast.pre.tokens = 0
  /\ blast.pre.capacity = 3
  /\ blast.pre.refill_rate = 2
  /\ blast.at - blast.pre.last_refill = 9000
  /\ blast.flag
  /\ bucket.tokens = 2

(***************************************************************************)
(* Properties of concurrent is_allowed calls (SpecLimiter)                 *)
(***************************************************************************)
\* C39: for one identifier and limit type, under any interleaving of
\* is_allowed calls, the calls allowed within one refill period are never
\* more than the capacity of the bucket.
C39_GrantsWithinCapacity ==
  rlnote.granted <= DefaultLimits(LimitType).capacity

(***************************************************************************)
(* Properties of the middleware (SpecDispatch)                             *)
(***************************************************************************)
\* C40: dispatch calls call_next at most once per request: exactly once
\* when the request is exempt, allowed, or the limiter fails, and not at
\* all when the limit is exceeded; an exception raised downstream does not
\* make it call call_next a second time.
C40_ForwardedAtMostOnce ==
  /\ mw.forwarded <= 1
  /\ mw.pc = "done"
       => mw.forwarded = (IF mw.route = "denied" THEN 0 ELSE 1)

====
